---------------------------- MODULE Spec2Model ----------------------------
(***************************************************************************)
(* Verification model of the PartyFinder event scraper (backend/).         *)
(*                                                                         *)
(* The module holds several specifications over one set of variables; a   *)
(* specification drives one group of variables and leaves the others idle. *)
(*   SpecSink   firebase_config.py: delete_old_events, then                *)
(*              upload_events_to_firestore, as main() calls them           *)
(*   SpecValid  one call of is_valid_event_url                             *)
(*   SpecCode   one call of extract_code_from_url                          *)
(*   SpecDedup  deduplicate_events, applied to a list and to its result    *)
(*   SpecTransform  one call of transform_to_app_format                    *)
(*   SpecMarkdown   the markdown ticket parser of scrape_event_details     *)
(*   SpecMatch  one call of match_tickets_with_schema                      *)
(*   SpecRun    one run of scrape_all_events over the venue pages          *)
(*   SpecSchema one call of extract_tickets_from_schema                    *)
(*   SpecMain   one call of main()                                         *)
(*   SpecLinks  the anchor extractors of extract_events_from_html          *)
(*   SpecBatch  the commits of delete_old_events and of                    *)
(*              upload_events_to_firestore on many records                 *)
(*   SpecServer the threads of server.py that call run_scraper;            *)
(*              SpecServerFair adds that a thread in run_scraper goes on   *)
(*                                                                         *)
(* Text is modelled as a sequence of one-character strings, so that the    *)
(* regular expressions and string methods of the source are computed and   *)
(* not assumed.                                                            *)
(***************************************************************************)
EXTENDS Integers, Sequences, FiniteSets, TLC

VARIABLES
    \* ---- sink (firebase_config.py) ----
    store,      \* the collection: document id -> document data
    now,        \* datetime.now(), in minutes
    sPc,        \* position of main()'s publish section
    sStream,    \* documents of events_ref.stream() still to visit
    sBatch,     \* operations queued in the current WriteBatch
    sCounts,    \* count_past_deleted, count_scraper_deleted, count_preserved, count
    sEvents,    \* events_data still to upload
    sError,     \* the exception main() caught, if any
    sCommits,   \* the calls of batch.commit() made so far: [phase, ok]
    \* ---- one call of is_valid_event_url or extract_code_from_url ----
    uUrl,       \* the url argument
    uCode,      \* the code argument; the code a stamped URL was built around
    uVenue,     \* the venue_slug argument
    uKind,      \* how the input was drawn
    uOut,       \* the value returned
    uPc,        \* "call" before the call, "done" after it
    \* ---- deduplicate_events, applied twice ----
    dEvents,    \* the list of candidates
    dOnce,      \* deduplicate_events(events)
    dTwice,     \* deduplicate_events of that result
    dPc,        \* which call comes next
    \* ---- one call of transform_to_app_format ----
    tEvent,     \* the event
    tToday,     \* datetime.now()
    tOut,       \* the record built for the event
    tPc,        \* "call" before the call, "done" after it
    \* ---- the markdown ticket parser of scrape_event_details ----
    mLines,     \* markdown.split('\n')
    mTickets,   \* tickets after the markdown section
    mPc,        \* "parse" before the section, "done" after it
    \* ---- one call of match_tickets_with_schema ----
    xMarkdown,  \* markdown_tickets
    xSchema,    \* schema_tickets
    xResult,    \* the list returned
    xPc,        \* "call" before the call, "done" after it
    \* ---- one run of scrape_all_events ----
    rUrls,      \* target_urls
    rGetDetails,\* get_details
    rPc,        \* where the run is: "venue", "retry", "venue_done", "detail", "filter",
                \* "done", or "crashed" had an exception left scrape_all_events
    rV,         \* the position in target_urls of the venue being scraped
    rFirst,     \* <<what the first attempt on the venue gave>>, <<>> between venues
    rCalls,     \* the extractor calls of the last extraction on the venue
    rAll,       \* all_events, as gathered from the venues
    rUnique,    \* all_events, as deduplicate_events returned it
    rI,         \* the position in all_events of the event whose details are fetched
    rResults,   \* all_events[0..i-1] after their detail fetch: <<>> for None
    rDetailed,  \* what scrape_event_details returned for all_events[0..i-1]
    rOut,       \* the list returned
    rLog,       \* the calls of firecrawl.scrape made so far
    \* ---- one call of extract_tickets_from_schema ----
    hScripts,   \* the JSON-LD scripts of the html, each the list of its offers
    hMatches,   \* the ticket URLs the fallback pattern matches in the html
    hTickets,   \* the list returned
    hPc,        \* "call" before the call, "done" after it
    \* ---- one call of main() ----
    aTest,      \* args.test
    aUpload,    \* args.upload
    aNoDetails, \* args.no_details
    aRaw,       \* raw_events
    aFiles,     \* the files written in DATA_DIR
    aLog,       \* the files written and the sink operations called, in order
    aCaught,    \* whether the except clause of the publish section ran
    aExit,      \* the exit code; -1 while main() runs
    aPc,        \* position in main()
    \* ---- the anchor extractors on a page with one anchor ----
    lAnchor,    \* the anchor
    lVenue,     \* the venue_slug argument
    lLinks,     \* what extract_from_html_links returned
    lCards,     \* what extract_from_custom_components returned, when called
    lPc,        \* "call" before the call, "done" after it
    \* ---- the commits of one call of delete_old_events or upload_events_to_firestore ----
    bFn,        \* "delete" or "upload"
    bN,         \* the number of records
    bDocs,      \* the data of the records, repeated along the collection
    bI,         \* the record the loop visits next
    bCount,     \* count, or count_past_deleted + count_scraper_deleted
    bBatch,     \* the records with an operation in the current WriteBatch
    bCommits,   \* the calls of batch.commit() made so far: [fn, ops, ok]
    bPc,        \* position in the function
    \* ---- the threads of server.py that call run_scraper ----
    vStatus,    \* server_status
    vPc,        \* thread -> the line of run_scraper it executes next, "idle" outside
    vEvents     \* thread -> len(events) of its call, -1 before the scraper returned

sinkVars == <<store, now, sPc, sStream, sBatch, sCounts, sEvents, sError, sCommits>>

urlVars == <<uUrl, uCode, uVenue, uKind, uOut, uPc>>

dedupVars == <<dEvents, dOnce, dTwice, dPc>>

transformVars == <<tEvent, tToday, tOut, tPc>>

markdownVars == <<mLines, mTickets, mPc>>

matchVars == <<xMarkdown, xSchema, xResult, xPc>>

runVars ==
    <<rUrls, rGetDetails, rPc, rV, rFirst, rCalls, rAll, rUnique, rI, rResults, rDetailed, rOut,
      rLog>>

schemaVars == <<hScripts, hMatches, hTickets, hPc>>

mainVars == <<aTest, aUpload, aNoDetails, aRaw, aFiles, aLog, aCaught, aExit, aPc>>

linksVars == <<lAnchor, lVenue, lLinks, lCards, lPc>>

batchVars == <<bFn, bN, bDocs, bI, bCount, bBatch, bCommits, bPc>>

serverVars == <<vStatus, vPc, vEvents>>

vars ==
    <<sinkVars, urlVars, dedupVars, transformVars, markdownVars, matchVars, runVars,
      schemaVars, mainVars, linksVars, batchVars, serverVars>>

(***************************************************************************)
(* Idle values and frames: a specification leaves the groups it does not   *)
(* drive at their idle value.                                              *)
(***************************************************************************)
SinkIdle ==
    /\ store = <<>>
    /\ now = 0
    /\ sPc = "off"
    /\ sStream = <<>>
    /\ sBatch = {}
    /\ sCounts = <<>>
    /\ sEvents = <<>>
    /\ sError = "none"
    /\ sCommits = <<>>

UrlIdle ==
    /\ uUrl = <<>>
    /\ uCode = <<>>
    /\ uVenue = <<>>
    /\ uKind = "off"
    /\ uOut = <<>>
    /\ uPc = "off"

DedupIdle ==
    /\ dEvents = <<>>
    /\ dOnce = <<>>
    /\ dTwice = <<>>
    /\ dPc = "off"

TransformIdle ==
    /\ tEvent = <<>>
    /\ tToday = <<>>
    /\ tOut = <<>>
    /\ tPc = "off"

MarkdownIdle ==
    /\ mLines = <<>>
    /\ mTickets = <<>>
    /\ mPc = "off"

MatchIdle ==
    /\ xMarkdown = <<>>
    /\ xSchema = <<>>
    /\ xResult = <<>>
    /\ xPc = "off"

RunIdle ==
    /\ rUrls = <<>>
    /\ rGetDetails = FALSE
    /\ rPc = "off"
    /\ rV = 0
    /\ rFirst = <<>>
    /\ rCalls = <<>>
    /\ rAll = <<>>
    /\ rUnique = <<>>
    /\ rI = 0
    /\ rResults = <<>>
    /\ rDetailed = <<>>
    /\ rOut = <<>>
    /\ rLog = <<>>

SchemaIdle ==
    /\ hScripts = <<>>
    /\ hMatches = {}
    /\ hTickets = <<>>
    /\ hPc = "off"

MainIdle ==
    /\ aTest = FALSE
    /\ aUpload = FALSE
    /\ aNoDetails = FALSE
    /\ aRaw = <<>>
    /\ aFiles = {}
    /\ aLog = <<>>
    /\ aCaught = FALSE
    /\ aExit = -1
    /\ aPc = "off"

LinksIdle ==
    /\ lAnchor = <<>>
    /\ lVenue = <<>>
    /\ lLinks = <<>>
    /\ lCards = <<>>
    /\ lPc = "off"

BatchIdle ==
    /\ bFn = "off"
    /\ bN = 0
    /\ bDocs = <<>>
    /\ bI = 0
    /\ bCount = 0
    /\ bBatch = {}
    /\ bCommits = <<>>
    /\ bPc = "off"

ServerIdle ==
    /\ vStatus = <<>>
    /\ vPc = <<>>
    /\ vEvents = <<>>

Idle(g) ==
    /\ IF g = "sink" THEN TRUE ELSE SinkIdle
    /\ IF g = "url" THEN TRUE ELSE UrlIdle
    /\ IF g = "dedup" THEN TRUE ELSE DedupIdle
    /\ IF g = "transform" THEN TRUE ELSE TransformIdle
    /\ IF g = "markdown" THEN TRUE ELSE MarkdownIdle
    /\ IF g = "match" THEN TRUE ELSE MatchIdle
    /\ IF g = "run" THEN TRUE ELSE RunIdle
    /\ IF g = "schema" THEN TRUE ELSE SchemaIdle
    /\ IF g = "main" THEN TRUE ELSE MainIdle
    /\ IF g = "links" THEN TRUE ELSE LinksIdle
    /\ IF g = "batch" THEN TRUE ELSE BatchIdle
    /\ IF g = "server" THEN TRUE ELSE ServerIdle

Frame(g) ==
    /\ IF g = "sink" THEN TRUE ELSE UNCHANGED sinkVars
    /\ IF g = "url" THEN TRUE ELSE UNCHANGED urlVars
    /\ IF g = "dedup" THEN TRUE ELSE UNCHANGED dedupVars
    /\ IF g = "transform" THEN TRUE ELSE UNCHANGED transformVars
    /\ IF g = "markdown" THEN TRUE ELSE UNCHANGED markdownVars
    /\ IF g = "match" THEN TRUE ELSE UNCHANGED matchVars
    /\ IF g = "run" THEN TRUE ELSE UNCHANGED runVars
    /\ IF g = "schema" THEN TRUE ELSE UNCHANGED schemaVars
    /\ IF g = "main" THEN TRUE ELSE UNCHANGED mainVars
    /\ IF g = "links" THEN TRUE ELSE UNCHANGED linksVars
    /\ IF g = "batch" THEN TRUE ELSE UNCHANGED batchVars
    /\ IF g = "server" THEN TRUE ELSE UNCHANGED serverVars

(***************************************************************************)
(* Generic helpers.                                                        *)
(***************************************************************************)
Min(a, b) == IF a <= b THEN a ELSE b

Max(a, b) == IF a >= b THEN a ELSE b

Range(s) == {s[i] : i \in 1..Len(s)}

\* the ids of a set, ascending, as a sequence
RECURSIVE SortedSeq(_)
SortedSeq(S) ==
    IF S = {} THEN <<>>
    ELSE LET m == CHOOSE x \in S : \A y \in S : x <= y
         IN  <<m>> \o SortedSeq(S \ {m})

(***************************************************************************)
(* SINK: firebase_config.py                                                *)
(*                                                                         *)
(* A document is [source, is_manual, fecha, hora]. source "" stands for a  *)
(* missing or empty 'source' field (data.get('source', '')). fecha and     *)
(* hora carry how the text parses:                                         *)
(*   kind "none"   the field is missing or empty                           *)
(*   kind "parts"  split() does not give 3 (fecha) or 2 (hora) parts       *)
(*   kind "value"  int() or datetime() raises ValueError                   *)
(*   kind "ok"     a date (day number) or a time (minute of the day)       *)
(* Documents are stored flat (upload_events_to_firestore unwraps           *)
(* 'evento'), so is_event_past reads the document itself.                  *)
(***************************************************************************)
BATCH_COMMIT == 400

MaxDocs == 2

MaxUpload == 2

MaxTicks == 1

Sources == {"scraper", "manual", "", "legacy"}

NoField == [kind |-> "none", v |-> 0]

Whens ==
    { [fecha |-> NoField, hora |-> NoField],
      [fecha |-> [kind |-> "ok", v |-> 1], hora |-> [kind |-> "ok", v |-> 23 * 60]],
      [fecha |-> [kind |-> "ok", v |-> 2], hora |-> [kind |-> "parts", v |-> 0]],
      [fecha |-> [kind |-> "ok", v |-> 2], hora |-> [kind |-> "ok", v |-> 23 * 60]],
      [fecha |-> [kind |-> "ok", v |-> 1], hora |-> [kind |-> "value", v |-> 0]],
      [fecha |-> [kind |-> "parts", v |-> 0], hora |-> [kind |-> "ok", v |-> 0]] }

DocTypes ==
    { [source |-> s, is_manual |-> m, fecha |-> w.fecha, hora |-> w.hora] :
        s \in Sources, m \in BOOLEAN, w \in Whens }

\* the run starts on day 2 at 12:00
NowStart == (2 * 24 * 60) + (12 * 60)

\* is_event_past(event_data), with datetime.now() = t
IsEventPast(data, t) ==
    IF data.fecha.kind = "none" THEN FALSE
    ELSE IF data.fecha.kind = "parts" THEN FALSE
    ELSE IF data.fecha.kind = "value" THEN FALSE
    ELSE IF data.hora.kind = "value" THEN FALSE
    ELSE LET hm == IF data.hora.kind \in {"none", "parts"} THEN 0 ELSE data.hora.v
             event_datetime == (data.fecha.v * 24 * 60) + hm
         IN  event_datetime < t

\* mutant: every future record without the is_manual flag is deleted,
\* whatever its source
DeleteDecisionNoSourceTest(data, t) ==
    IF IsEventPast(data, t) THEN "past"
    ELSE IF data.is_manual THEN "preserve"
    ELSE "scraper"

\* mutant: a past record tagged manual is preserved
DeleteDecisionSparingManual(data, t) ==
    IF data.source = "manual" \/ data.is_manual THEN "preserve"
    ELSE IF IsEventPast(data, t) THEN "past"
    ELSE IF data.source = "scraper" \/ data.source = "" THEN "scraper"
    ELSE "unknown"

\* the branch the loop body of delete_old_events takes for one document
DeleteDecision(data, t) ==
    IF IsEventPast(data, t) THEN "past"
    ELSE IF data.source = "manual" \/ data.is_manual THEN "preserve"
    ELSE IF data.source = "scraper" \/ data.source = "" THEN "scraper"
    ELSE "unknown"

\* events_ref.document(): an auto-generated id, none of the ids in use
NewDocId(used) == IF used = {} THEN 1 ELSE (CHOOSE m \in used : \A y \in used : y <= m) + 1

\* batch.commit(): every queued operation is applied
Commit(st, batch) ==
    LET dels == {o.id : o \in {x \in batch : x.op = "delete"}}
        sets == {o \in batch : o.op = "set"}
        ids  == (DOMAIN st \ dels) \cup {o.id : o \in sets}
    IN  [id \in ids |->
            IF \E o \in sets : o.id = id
            THEN (CHOOSE o \in sets : o.id = id).data
            ELSE st[id]]

\* one call of batch.commit(): the phase it belongs to and whether it returned
CommitCall(phase, ok) == [phase |-> phase, ok |-> ok]

ZeroCounts == [past |-> 0, scraper |-> 0, preserved |-> 0, count |-> 0]

UploadEvent == [fecha |-> [kind |-> "ok", v |-> 3], hora |-> [kind |-> "ok", v |-> 23 * 60]]

SinkInit ==
    /\ Idle("sink")
    /\ \E n \in 0..MaxDocs : \E docs \in [1..n -> DocTypes] : store = docs
    /\ now = NowStart
    /\ sPc = "start"
    /\ sStream = <<>>
    /\ sBatch = {}
    /\ sCounts = ZeroCounts
    /\ \E k \in 0..MaxUpload : sEvents = [i \in 1..k |-> UploadEvent]
    /\ sError = "none"
    /\ sCommits = <<>>

\* time passes while the run is in progress
Tick ==
    /\ sPc \notin {"off", "done"}
    /\ now < NowStart + (MaxTicks * 12 * 60)
    /\ now' = now + (12 * 60)
    /\ UNCHANGED <<store, sPc, sStream, sBatch, sCounts, sEvents, sError, sCommits>>
    /\ Frame("sink")

\* delete_old_events: get_db(), events_ref.stream(), db.batch()
DeleteBegin ==
    /\ sPc = "start"
    /\ \E db \in BOOLEAN :
         IF db
         THEN /\ sPc' = "delLoop"
              /\ sStream' = SortedSeq(DOMAIN store)
         ELSE /\ sPc' = "delDone"
              /\ sStream' = <<>>
    /\ sBatch' = {}
    /\ sCounts' = ZeroCounts
    /\ UNCHANGED <<store, now, sEvents, sError, sCommits>>
    /\ Frame("sink")

\* one iteration of "for doc in docs"; a commit that raises ends the function
\* in its except clause
DeleteDoc ==
    /\ sPc = "delLoop"
    /\ sStream # <<>>
    /\ LET id   == Head(sStream)
           data == store[id]
           d    == DeleteDecision(data, now)
           queued == IF d \in {"past", "scraper"}
                     THEN sBatch \cup {[op |-> "delete", id |-> id]}
                     ELSE sBatch
           c    == IF d = "past" THEN [sCounts EXCEPT !.past = @ + 1]
                   ELSE IF d = "scraper" THEN [sCounts EXCEPT !.scraper = @ + 1]
                   ELSE [sCounts EXCEPT !.preserved = @ + 1]
           full == d \in {"past", "scraper"} /\ (c.past + c.scraper) % BATCH_COMMIT = 0
       IN  /\ sCounts' = c
           /\ sStream' = Tail(sStream)
           /\ IF full
              THEN \E ok \in BOOLEAN :
                     /\ sCommits' = Append(sCommits, CommitCall("delete", ok))
                     /\ IF ok
                        THEN /\ store' = Commit(store, queued)
                             /\ sBatch' = {}
                             /\ sPc' = "delLoop"
                        ELSE /\ store' = store
                             /\ sBatch' = queued
                             /\ sPc' = "delDone"
              ELSE /\ store' = store
                   /\ sBatch' = queued
                   /\ sPc' = "delLoop"
                   /\ sCommits' = sCommits
    /\ UNCHANGED <<now, sEvents, sError>>
    /\ Frame("sink")

\* after the loop: "if (count_past_deleted + count_scraper_deleted) % 400 != 0"
DeleteFinish ==
    /\ sPc = "delLoop"
    /\ sStream = <<>>
    /\ IF (sCounts.past + sCounts.scraper) % BATCH_COMMIT # 0
       THEN \E ok \in BOOLEAN :
              /\ store' = IF ok THEN Commit(store, sBatch) ELSE store
              /\ sBatch' = IF ok THEN {} ELSE sBatch
              /\ sCommits' = Append(sCommits, CommitCall("delete", ok))
       ELSE /\ store' = store
            /\ sBatch' = sBatch
            /\ sCommits' = sCommits
    /\ sPc' = "delDone"
    /\ UNCHANGED <<now, sStream, sCounts, sEvents, sError>>
    /\ Frame("sink")

\* upload_events_to_firestore: get_db(), "if not events_data", db.batch()
UploadBegin ==
    /\ sPc = "delDone"
    /\ \E db \in BOOLEAN :
         sPc' = IF db /\ sEvents # <<>> THEN "upLoop" ELSE "done"
    /\ sBatch' = {}
    /\ sCounts' = [sCounts EXCEPT !.count = 0]
    /\ UNCHANGED <<store, now, sStream, sEvents, sError, sCommits>>
    /\ Frame("sink")

\* one iteration of "for item in events_data"; a commit that raises leaves
\* the function and is caught by main()
UploadDoc ==
    /\ sPc = "upLoop"
    /\ sEvents # <<>>
    /\ LET item == Head(sEvents)
           used == DOMAIN store \cup {o.id : o \in sBatch}
           doc  == [source |-> "scraper", is_manual |-> FALSE,
                    fecha |-> item.fecha, hora |-> item.hora]
           queued == sBatch \cup {[op |-> "set", id |-> NewDocId(used), data |-> doc]}
           n    == sCounts.count + 1
       IN  /\ sCounts' = [sCounts EXCEPT !.count = n]
           /\ sEvents' = Tail(sEvents)
           /\ IF n % BATCH_COMMIT = 0
              THEN \E ok \in BOOLEAN :
                     /\ sCommits' = Append(sCommits, CommitCall("insert", ok))
                     /\ IF ok
                        THEN /\ store' = Commit(store, queued)
                             /\ sBatch' = {}
                             /\ sPc' = "upLoop"
                             /\ sError' = sError
                        ELSE /\ store' = store
                             /\ sBatch' = queued
                             /\ sPc' = "done"
                             /\ sError' = "upload"
              ELSE /\ store' = store
                   /\ sBatch' = queued
                   /\ sPc' = "upLoop"
                   /\ sError' = sError
                   /\ sCommits' = sCommits
    /\ UNCHANGED <<now, sStream>>
    /\ Frame("sink")

\* after the loop: "if count % 400 != 0: batch.commit()"
UploadFinish ==
    /\ sPc = "upLoop"
    /\ sEvents = <<>>
    /\ IF sCounts.count % BATCH_COMMIT # 0
       THEN \E ok \in BOOLEAN :
              /\ store' = IF ok THEN Commit(store, sBatch) ELSE store
              /\ sBatch' = IF ok THEN {} ELSE sBatch
              /\ sError' = IF ok THEN sError ELSE "upload"
              /\ sCommits' = Append(sCommits, CommitCall("insert", ok))
       ELSE /\ store' = store
            /\ sBatch' = sBatch
            /\ sError' = sError
            /\ sCommits' = sCommits
    /\ sPc' = "done"
    /\ UNCHANGED <<now, sStream, sCounts, sEvents>>
    /\ Frame("sink")

SinkNext ==
    \/ Tick
    \/ DeleteBegin
    \/ DeleteDoc
    \/ DeleteFinish
    \/ UploadBegin
    \/ UploadDoc
    \/ UploadFinish

SpecSink == SinkInit /\ [][SinkNext]_vars

LowerChars == <<"a", "b", "c", "d", "e", "f", "g", "h", "i", "j", "k", "l", "m", "n", "o", "p", "q", "r", "s", "t", "u", "v", "w", "x", "y", "z", "á", "é", "í", "ó", "ú", "ñ">>

UpperChars == <<"A", "B", "C", "D", "E", "F", "G", "H", "I", "J", "K", "L", "M", "N", "O", "P", "Q", "R", "S", "T", "U", "V", "W", "X", "Y", "Z", "Á", "É", "Í", "Ó", "Ú", "Ñ">>

Lowers == Range(LowerChars)

Uppers == Range(UpperChars)

Digits == {"0", "1", "2", "3", "4", "5", "6", "7", "8", "9"}

AsciiUppers == {UpperChars[i] : i \in 1..26}

\* str.isalnum() of one character
AlnumChars == Lowers \cup Uppers \cup Digits

\* \w of a str pattern
WordChars == AlnumChars \cup {"_"}

\* \s, and the characters str.strip() removes
SpaceChars == {" ", "\t", "\n"}

\* None, as distinct from every str
None == <<"<None>">>

\* bool(x) of an Optional[str]
Truthy(x) == x # None /\ x # <<>>

IndexIn(seq, c) == CHOOSE i \in 1..Len(seq) : seq[i] = c

LowerChar(c) == IF c \in Uppers THEN LowerChars[IndexIn(UpperChars, c)] ELSE c

UpperChar(c) == IF c \in Lowers THEN UpperChars[IndexIn(LowerChars, c)] ELSE c

\* str.lower()
Lower(s) == [i \in 1..Len(s) |-> LowerChar(s[i])]

\* str.upper()
Upper(s) == [i \in 1..Len(s) |-> UpperChar(s[i])]

\* s[i:j] with 1-based, inclusive bounds
Sub(s, i, j) == IF j < i THEN <<>> ELSE SubSeq(s, i, j)

\* s.startswith(lit, i-1)
StartsAt(s, i, lit) ==
    /\ i >= 1
    /\ i + Len(lit) - 1 <= Len(s)
    /\ \A k \in 1..Len(lit) : s[i + k - 1] = lit[k]

StartsWith(s, lit) == StartsAt(s, 1, lit)

\* the positions where lit occurs in s
Occurrences(s, lit) == {i \in 1..(Len(s) - Len(lit) + 1) : StartsAt(s, i, lit)}

\* "lit in s"
Contains(s, lit) == Occurrences(s, lit) # {}

SetMin(S) == CHOOSE x \in S : \A y \in S : x <= y

SetMax(S) == CHOOSE x \in S : \A y \in S : y <= x

\* s.split(lit)[0]
BeforeFirst(s, lit) ==
    IF Contains(s, lit) THEN Sub(s, 1, SetMin(Occurrences(s, lit)) - 1) ELSE s

\* s.split(lit)[-1]
AfterLast(s, lit) ==
    IF Contains(s, lit)
    THEN Sub(s, SetMax(Occurrences(s, lit)) + Len(lit), Len(s))
    ELSE s

\* the length of the longest run of characters of C that starts at s[i]
RunLen(s, i, C) ==
    SetMax({n \in 0..(Len(s) - i + 1) : \A k \in i..(i + n - 1) : s[k] \in C})

\* the length of the longest run of characters not in C that starts at s[i]
RunLenNot(s, i, C) ==
    SetMax({n \in 0..(Len(s) - i + 1) : \A k \in i..(i + n - 1) : s[k] \notin C})

\* str.strip()
Strip(s) ==
    LET a == RunLen(s, 1, SpaceChars)
        keep == {j \in 1..Len(s) : s[j] \notin SpaceChars}
    IN  IF keep = {} THEN <<>> ELSE Sub(s, a + 1, SetMax(keep))

\* s.replace(c, '') for one character c
RECURSIVE RemoveChar(_, _)
RemoveChar(s, c) ==
    IF s = <<>> THEN <<>>
    ELSE IF Head(s) = c THEN RemoveChar(Tail(s), c)
    ELSE <<Head(s)>> \o RemoveChar(Tail(s), c)

\* str.isalnum(): at least one character, all of them alphanumeric
IsAlnum(s) == s # <<>> /\ \A i \in 1..Len(s) : s[i] \in AlnumChars

\* s.split(c) for one character c
RECURSIVE SplitChar(_, _)
SplitChar(s, c) ==
    IF ~Contains(s, <<c>>) THEN <<s>>
    ELSE LET i == SetMin(Occurrences(s, <<c>>))
         IN  <<Sub(s, 1, i - 1)>> \o SplitChar(Sub(s, i + 1, Len(s)), c)

\* the concatenation of a sequence of strings
RECURSIVE Concat(_)
Concat(ss) == IF ss = <<>> THEN <<>> ELSE Head(ss) \o Concat(Tail(ss))

(***************************************************************************)
(* URL validation and code extraction: scraper_firecrawl_dev.py            *)
(***************************************************************************)
S_events == <<"/", "e", "v", "e", "n", "t", "s", "/">>

\* re.search(r'function\s*\(', u): "function", white space, "("
MatchesFunctionCall(u) ==
    \E i \in Occurrences(u, <<"f", "u", "n", "c", "t", "i", "o", "n">>) :
        LET j == i + 8
        IN  StartsAt(u, j + RunLen(u, j, SpaceChars), <<"(">>)

\* re.search(r'var\s+\w+\s*=', u): "var", white space, a word, white space, "="
MatchesVarDeclaration(u) ==
    \E i \in Occurrences(u, <<"v", "a", "r">>) :
        LET j  == i + 3
            s1 == RunLen(u, j, SpaceChars)
            w  == RunLen(u, j + s1, WordChars)
            s2 == RunLen(u, j + s1 + w, SpaceChars)
        IN  s1 >= 1 /\ w >= 1 /\ StartsAt(u, j + s1 + w + s2, <<"=">>)

\* one entry of INVALID_URL_PATTERNS found in u, which the caller has
\* lower-cased when the search ignores case
MatchesPattern(n, u) ==
    CASE n = 1 -> Contains(u, <<"$", "*", "*", "*">>)
      [] n = 2 -> Contains(u, <<"m", "e", "s", "s", "a", "g", "e", ".">>)
      [] n = 3 -> Contains(u, <<"e", "v", "e", "n", "t", "o", "_", "s", "l", "u", "g">>)
      [] n = 4 -> Contains(u, <<"e", "v", "e", "n", "t", "o", "_", "c", "o", "d", "i", "g", "o">>)
      [] n = 5 -> MatchesFunctionCall(u)
      [] n = 6 -> Contains(u, <<"w", "i", "n", "d", "o", "w", ".">>)
      [] n = 7 -> MatchesVarDeclaration(u)
      [] n = 8 -> Contains(u, <<"c", "r", "e", "a", "t", "e", "e", "l", "e", "m", "e", "n", "t">>)

\* the entries of INVALID_URL_PATTERNS
InvalidUrlPatterns == 1..8

\* re.search(pattern, url, re.IGNORECASE) for some pattern of the denylist
MatchesDenylist(url) == \E n \in InvalidUrlPatterns : MatchesPattern(n, Lower(url))

\* the list invalid_chars of is_valid_event_url
InvalidSlugParts == { <<"$", "*", "*", "*">>, <<"M", "e", "s", "s", "a", "g", "e", ".">>, <<"e", "v", "e", "n", "t", "o", "_">>, <<"f", "u", "n", "c", "t", "i", "o", "n">>, <<"w", "i", "n", "d", "o", "w">> }

\* code.replace('-', '').isalnum() and len(code.replace('-', '')) >= 4
CodeWellFormed(code) ==
    LET bare == RemoveChar(code, "-")
    IN  IsAlnum(bare) /\ Len(bare) >= 4

\* mutant: the code test is dropped
IsValidEventUrlNoCodeTest(url, code) ==
    IF url = <<>> \/ Len(url) < 10 THEN FALSE
    ELSE IF ~Contains(url, S_events) THEN FALSE
    ELSE IF MatchesDenylist(url) THEN FALSE
    ELSE LET url_slug == Strip(BeforeFirst(BeforeFirst(AfterLast(url, S_events), <<"?">>), <<"#">>))
         IN  IF url_slug = <<>> THEN FALSE
             ELSE IF \E bad \in InvalidSlugParts : Contains(url_slug, bad) THEN FALSE
             ELSE TRUE

\* is_valid_event_url(url, code)
IsValidEventUrl(url, code) ==
    IF url = <<>> \/ Len(url) < 10 THEN FALSE
    ELSE IF ~Contains(url, S_events) THEN FALSE
    ELSE IF MatchesDenylist(url) THEN FALSE
    ELSE LET url_slug == Strip(BeforeFirst(BeforeFirst(AfterLast(url, S_events), <<"?">>), <<"#">>))
         IN  IF url_slug = <<>> THEN FALSE
             ELSE IF \E bad \in InvalidSlugParts : Contains(url_slug, bad) THEN FALSE
             ELSE IF Truthy(code) THEN CodeWellFormed(code)
             ELSE TRUE

CodeChars == AsciiUppers \cup Digits

\* where r'/(?:-{1,2})?\d{1,2}-\d{2}-\d{4}\d*-([A-Z0-9]{4,})(?:/|$)' matches
\* with its "/" at url[i]: <<start, length>> of group 1, or <<0, 0>>
StampedCodeAt(url, i) ==
    LET h  == RunLen(url, i + 1, {"-"})
        d  == i + 1 + h
        n1 == RunLen(url, d, Digits)
        m  == d + n1 + 1
        n2 == RunLen(url, m, Digits)
        y  == m + n2 + 1
        n3 == RunLen(url, y, Digits)
        c  == y + n3 + 1
        n4 == RunLen(url, c, CodeChars)
    IN  IF /\ StartsAt(url, i, <<"/">>)
           /\ h <= 2
           /\ n1 \in {1, 2} /\ StartsAt(url, d + n1, <<"-">>)
           /\ n2 = 2 /\ StartsAt(url, m + n2, <<"-">>)
           /\ n3 >= 4 /\ StartsAt(url, y + n3, <<"-">>)
           /\ n4 >= 4
           /\ (c + n4 = Len(url) + 1 \/ StartsAt(url, c + n4, <<"/">>))
        THEN <<c, n4>>
        ELSE <<0, 0>>

\* re.search(r'/events/([^/]+)(?:/|$)', url).group(1), or None
EventsSlug(url) ==
    LET hits == {i \in Occurrences(url, S_events) : RunLenNot(url, i + 8, {"/"}) >= 1}
    IN  IF hits = {} THEN None
        ELSE LET i == SetMin(hits)
             IN  Sub(url, i + 8, i + 8 + RunLenNot(url, i + 8, {"/"}) - 1)

\* mutant: the last segment must be longer than 4 characters
CodeFromSlugEndOffByOne(url) ==
    LET slug == EventsSlug(url)
    IN  IF slug = None THEN None
        ELSE LET parts == SplitChar(slug, "-")
                 last_part == parts[Len(parts)]
             IN  IF IsAlnum(last_part) /\ Len(last_part) > 4 THEN last_part
                 ELSE IF Len(parts) >= 2
                 THEN LET potential_code == parts[Len(parts) - 1] \o <<"-">> \o last_part
                      IN  IF CodeWellFormed(potential_code) THEN potential_code ELSE None
                 ELSE None

\* PATRON 2 of extract_code_from_url: the last segment of the slug, else the
\* last two
CodeFromSlugEnd(url) ==
    LET slug == EventsSlug(url)
    IN  IF slug = None THEN None
        ELSE LET parts == SplitChar(slug, "-")
                 last_part == parts[Len(parts)]
             IN  IF IsAlnum(last_part) /\ Len(last_part) >= 4 THEN last_part
                 ELSE IF Len(parts) >= 2
                 THEN LET potential_code == parts[Len(parts) - 1] \o <<"-">> \o last_part
                      IN  IF CodeWellFormed(potential_code) THEN potential_code ELSE None
                 ELSE None

\* re.search(r'/events/([A-Z0-9-]+)(?:/|$)', url).group(1), or None
StandardCode(url) ==
    LET hits == {i \in Occurrences(url, S_events) :
                    LET n == RunLen(url, i + 8, CodeChars \cup {"-"})
                    IN  n >= 1 /\ (i + 8 + n = Len(url) + 1 \/ StartsAt(url, i + 8 + n, <<"/">>))}
    IN  IF hits = {} THEN None
        ELSE LET i == SetMin(hits)
             IN  Sub(url, i + 8, i + 8 + RunLen(url, i + 8, CodeChars \cup {"-"}) - 1)

\* extract_code_from_url(url, venue_slug)
ExtractCodeFromUrl(url, venue_slug) ==
    IF url = <<>> \/ url = None \/ ~Contains(url, S_events) THEN None
    ELSE IF Contains(Lower(venue_slug), <<"s", "a", "l", "a", "-", "r", "e", "m">>)
    THEN LET stamped == {i \in 1..Len(url) : StampedCodeAt(url, i)[1] # 0}
         IN  IF stamped # {}
             THEN LET g == StampedCodeAt(url, SetMin(stamped))
                  IN  Sub(url, g[1], g[1] + g[2] - 1)
             ELSE CodeFromSlugEnd(url)
    ELSE StandardCode(url)

(***************************************************************************)
(* SpecValid: is_valid_event_url applied to a URL put together from the    *)
(* pieces below and to a code argument.                                    *)
(* SpecCode: extract_code_from_url applied to a URL of the date-stamped    *)
(* form (uKind "stamped", built around the code kept in uCode) or to       *)
(* another URL (uKind "other").                                            *)
(***************************************************************************)
MaxUrlPieces == 3

MaxCodeLen == 5

UrlPieces ==
    { <<"h", "t", "t", "p", "s", ":", "/", "/", "w", "e", "b", ".", "f", "o", "u", "r", "v", "e", "n", "u", "e", "s", ".", "c", "o", "m", "/", "e", "s", "/", "s", "a", "l", "a", "-", "r", "e", "m">>,
      S_events,
      <<"f", "r", "i", "d", "a", "y", "-", "s", "e", "s", "s", "i", "o", "n", "-", "-", "0", "9", "-", "0", "1", "-", "2", "0", "2", "6", "-", "H", "Z", "O", "Y">>,
      <<"L", "K", "B", "5">>,
      <<"$", "*", "*", "*">>,
      <<"M", "e", "s", "s", "a", "g", "e", ".">>,
      <<"e", "v", "e", "n", "t", "o", "_", "s", "l", "u", "g">>,
      <<"E", "V", "E", "N", "T", "O", "_", "C", "O", "D", "I", "G", "O">>,
      <<"F", "u", "n", "c", "t", "i", "o", "n", " ", "(">>,
      <<"w", "i", "n", "d", "o", "w", ".">>,
      <<"v", "a", "r", " ", "x", " ", "=">>,
      <<"c", "r", "e", "a", "t", "e", "E", "l", "e", "m", "e", "n", "t">>,
      <<"?", "q", "=", "1">>,
      <<"f", "u", "n", "c", "t", "i", "o", "n">> }

CodeArgs ==
    { None, <<>>, <<"H", "Z", "O", "Y">>, <<"5", "y", "-", "t", "v">>, <<"A", "B", "-">>, <<"a", "$", "c", "d">>, <<"-", "-", "-", "-">> }

ValidInputUrls ==
    {Concat(ps) : ps \in UNION {[1..n -> UrlPieces] : n \in 0..MaxUrlPieces}}

ValidInit ==
    /\ Idle("url")
    /\ uUrl \in ValidInputUrls
    /\ uCode \in CodeArgs
    /\ uVenue = <<>>
    /\ uKind = "any"
    /\ uOut = None
    /\ uPc = "call"

\* the call is_valid_event_url(url, code)
IsValidCall ==
    /\ uPc = "call"
    /\ uKind = "any"
    /\ uOut' = IsValidEventUrl(uUrl, uCode)
    /\ uPc' = "done"
    /\ UNCHANGED <<uUrl, uCode, uVenue, uKind>>
    /\ Frame("url")

ValidNext == IsValidCall

SpecValid == ValidInit /\ [][ValidNext]_vars

(***************************************************************************)
(* C2 (as amended): whenever is_valid_event_url(url, code) returns True,   *)
(* the url matches no INVALID_URL_PATTERNS entry (case-insensitively) and  *)
(* the code, if one was given (not None, not empty), is alphanumeric after *)
(* hyphen removal and at least 4 characters long; a url matching a         *)
(* denylist pattern is rejected whatever the code argument is.             *)
(***************************************************************************)
C2_AcceptedUrlIsCleanAndGivenCodeWellFormed ==
    uPc = "done" =>
        /\ uOut = TRUE =>
              /\ ~MatchesDenylist(uUrl)
              /\ Truthy(uCode) =>
                    /\ IsAlnum(RemoveChar(uCode, "-"))
                    /\ Len(RemoveChar(uCode, "-")) >= 4
        /\ MatchesDenylist(uUrl) => uOut = FALSE

\* C2 as stated: an accepted pair always has a non-empty, well-formed code
C2_Original_AcceptedCodeNonEmpty ==
    uPc = "done" =>
        /\ uOut = TRUE =>
              /\ ~MatchesDenylist(uUrl)
              /\ Truthy(uCode)
              /\ IsAlnum(RemoveChar(uCode, "-"))
              /\ Len(RemoveChar(uCode, "-")) >= 4
        /\ MatchesDenylist(uUrl) => uOut = FALSE

\* a url accepted together with a hyphenated code
C2_Witness ==
    /\ uPc = "done"
    /\ uOut = TRUE
    /\ uCode = <<"5", "y", "-", "t", "v">>
    /\ Contains(uUrl, <<"s", "a", "l", "a", "-", "r", "e", "m", "/", "e", "v", "e", "n", "t", "s", "/", "f", "r", "i", "d", "a", "y">>)

CodeAlphabet == {"A", "Z", "7"}

StampedCodes == UNION {[1..n -> CodeAlphabet] : n \in 4..MaxCodeLen}

StampedBases == { <<"h", "t", "t", "p", "s", ":", "/", "/", "w", "e", "b", ".", "f", "o", "u", "r", "v", "e", "n", "u", "e", "s", ".", "c", "o", "m", "/", "e", "s", "/", "s", "a", "l", "a", "-", "r", "e", "m", "/", "e", "v", "e", "n", "t", "s", "/">>, <<"/", "e", "s", "/", "s", "a", "l", "a", "-", "r", "e", "m", "/", "e", "v", "e", "n", "t", "s", "/">> }

StampedSlugs == { <<>>, <<"f", "i", "e", "s", "t", "a">>, <<"f", "r", "i", "d", "a", "y", "-", "s", "e", "s", "s", "i", "o", "n", "-", "-", "s", "a", "l", "a", "-", "r", "e", "m">>, <<"N", "O", "C", "H", "E", "-", "2", "X", "2">> }

StampedDates == { <<"0", "9", "-", "0", "1", "-", "2", "0", "2", "6">>, <<"3", "1", "-", "1", "2", "-", "2", "0", "2", "5">> }

StampedUrl(base, slug, sep, date, extra, code) ==
    base \o slug \o sep \o date \o extra \o <<"-">> \o code

OtherUrls ==
    { [url |-> <<"h", "t", "t", "p", "s", ":", "/", "/", "s", "i", "t", "e", ".", "f", "o", "u", "r", "v", "e", "n", "u", "e", "s", ".", "c", "o", "m", "/", "e", "s", "/", "l", "u", "m", "i", "n", "a", "t", "a", "-", "d", "i", "s", "c", "o", "/", "e", "v", "e", "n", "t", "s", "/", "L", "K", "B", "5">>, venue |-> <<"l", "u", "m", "i", "n", "a", "t", "a", "-", "d", "i", "s", "c", "o">>],
      [url |-> <<"h", "t", "t", "p", "s", ":", "/", "/", "s", "i", "t", "e", ".", "f", "o", "u", "r", "v", "e", "n", "u", "e", "s", ".", "c", "o", "m", "/", "e", "s", "/", "l", "u", "m", "i", "n", "a", "t", "a", "-", "d", "i", "s", "c", "o", "/", "e", "v", "e", "n", "t", "s", "/", "l", "k", "b", "5">>, venue |-> <<"l", "u", "m", "i", "n", "a", "t", "a", "-", "d", "i", "s", "c", "o">>],
      [url |-> <<"/", "e", "s", "/", "s", "a", "l", "a", "-", "r", "e", "m", "/", "e", "v", "e", "n", "t", "s", "/", "f", "i", "e", "s", "t", "a", "-", "-", "0", "9", "-", "0", "1", "-", "2", "0", "2", "6", "-", "a", "b", "c", "d">>, venue |-> <<"s", "a", "l", "a", "-", "r", "e", "m">>],
      [url |-> <<"/", "e", "s", "/", "s", "a", "l", "a", "-", "r", "e", "m", "/", "e", "v", "e", "n", "t", "s", "/", "f", "i", "e", "s", "t", "a", "-", "-", "0", "9", "-", "0", "1", "-", "2", "0", "2", "6", "-", "A", "B">>, venue |-> <<"s", "a", "l", "a", "-", "r", "e", "m">>],
      [url |-> <<"/", "e", "s", "/", "s", "a", "l", "a", "-", "r", "e", "m", "/", "e", "v", "e", "n", "t", "s", "/", "a", "-", "b">>, venue |-> <<"s", "a", "l", "a", "-", "r", "e", "m">>],
      [url |-> <<"/", "e", "s", "/", "s", "a", "l", "a", "-", "r", "e", "m", "/", "e", "v", "e", "n", "t", "s", "/">>, venue |-> <<"s", "a", "l", "a", "-", "r", "e", "m">>],
      [url |-> <<"/", "e", "s", "/", "s", "a", "l", "a", "-", "r", "e", "m", "/", "t", "i", "c", "k", "e", "t", "s", "/", "A", "B", "C", "D">>, venue |-> <<"s", "a", "l", "a", "-", "r", "e", "m">>] }

CodeInit ==
    /\ Idle("url")
    /\ \/ /\ uKind = "stamped"
          /\ uCode \in StampedCodes
          /\ uVenue \in { <<"s", "a", "l", "a", "-", "r", "e", "m">>, <<"S", "a", "l", "a", "-", "R", "e", "m">> }
          /\ \E base \in StampedBases, slug \in StampedSlugs, sep \in {<<"-">>, <<"-", "-">>},
                date \in StampedDates, extra \in {<<>>, <<"1">>} :
                uUrl = StampedUrl(base, slug, sep, date, extra, uCode)
       \/ /\ uKind = "other"
          /\ uCode = None
          /\ \E o \in OtherUrls : uUrl = o.url /\ uVenue = o.venue
    /\ uOut = None
    /\ uPc = "call"

\* the call extract_code_from_url(url, venue_slug)
ExtractCodeCall ==
    /\ uPc = "call"
    /\ uKind \in {"stamped", "other"}
    /\ uOut' = ExtractCodeFromUrl(uUrl, uVenue)
    /\ uPc' = "done"
    /\ UNCHANGED <<uUrl, uCode, uVenue, uKind>>
    /\ Frame("url")

CodeNext == ExtractCodeCall

SpecCode == CodeInit /\ [][CodeNext]_vars

(***************************************************************************)
(* C4: for a venue slug containing 'sala-rem' and a URL of the form        *)
(* .../events/<slug>--DD-MM-YYYY-<CODE> (also with one leading hyphen or   *)
(* extra digits after the year), CODE upper-case alphanumeric of length    *)
(* >= 4, extract_code_from_url returns exactly CODE.                       *)
(***************************************************************************)
C4_StampedUrlRoundTrip ==
    (uPc = "done" /\ uKind = "stamped") => uOut = uCode

\* the round trip on a URL with one leading hyphen and an extra digit after
\* the year
C4_Witness ==
    /\ uPc = "done"
    /\ uKind = "stamped"
    /\ uOut = uCode
    /\ Contains(uUrl, <<"f", "i", "e", "s", "t", "a", "-", "0", "9", "-", "0", "1", "-", "2", "0", "2", "6", "1", "-">>)

(***************************************************************************)
(* DEDUPLICATION: deduplicate_events                                       *)
(*                                                                         *)
(* A candidate is [url, code, name, venue_slug, date_text, date_parts].    *)
(* None in url, code, name, venue_slug or date_text stands for a missing   *)
(* key; date_parts is <<>> for a missing '_date_parts' and <<day, month,   *)
(* year>> otherwise.                                                       *)
(***************************************************************************)
\* event.get(key, ''), given the field
GetStr(x) == IF x = None THEN <<>> ELSE x

\* s with the characters outside C removed
Keep(s, C) == SelectSeq(s, LAMBDA c : c \in C)

\* re.sub(r'\s+', ' ', s)
RECURSIVE CollapseSpaces(_)
CollapseSpaces(s) ==
    IF s = <<>> THEN <<>>
    ELSE IF Head(s) \in SpaceChars
    THEN <<" ">> \o CollapseSpaces(Sub(s, RunLen(s, 1, SpaceChars) + 1, Len(s)))
    ELSE <<Head(s)>> \o CollapseSpaces(Tail(s))

\* name_normalized of deduplicate_events
NameNormalized(event_name) ==
    CollapseSpaces(Strip(Keep(Lower(event_name), WordChars \cup SpaceChars)))

\* event_url after "Normalizar URL"
NormalizedUrl(url) ==
    LET event_url == Strip(GetStr(url))
    IN  IF event_url # <<>>
        THEN BeforeFirst(BeforeFirst(event_url, <<"?">>), <<"#">>)
        ELSE event_url

\* event_code of deduplicate_events
NormalizedCode(code) ==
    IF Truthy(code) THEN Upper(Strip(code)) ELSE None

\* month_map of deduplicate_events, in the order of the dict
MonthMap ==
    << <<<<"e", "n", "e", "r", "o">>, <<"0", "1">>>>, <<<<"f", "e", "b", "r", "e", "r", "o">>, <<"0", "2">>>>, <<<<"m", "a", "r", "z", "o">>, <<"0", "3">>>>,
       <<<<"a", "b", "r", "i", "l">>, <<"0", "4">>>>, <<<<"m", "a", "y", "o">>, <<"0", "5">>>>, <<<<"j", "u", "n", "i", "o">>, <<"0", "6">>>>,
       <<<<"j", "u", "l", "i", "o">>, <<"0", "7">>>>, <<<<"a", "g", "o", "s", "t", "o">>, <<"0", "8">>>>, <<<<"s", "e", "p", "t", "i", "e", "m", "b", "r", "e">>, <<"0", "9">>>>,
       <<<<"o", "c", "t", "u", "b", "r", "e">>, <<"1", "0">>>>, <<<<"n", "o", "v", "i", "e", "m", "b", "r", "e">>, <<"1", "1">>>>, <<<<"d", "i", "c", "i", "e", "m", "b", "r", "e">>, <<"1", "2">>>> >>

\* where r'(\d{1,2})\s+\w+' matches in s: the positions of the first digit
DateTextHits(s) ==
    {i \in 1..Len(s) :
        LET n  == RunLen(s, i, Digits)
            sp == RunLen(s, i + n, SpaceChars)
        IN  /\ n \in {1, 2}
            /\ sp >= 1
            /\ RunLen(s, i + n + sp, WordChars) >= 1}

\* the leftmost match, or 0
FirstHit(hits) == IF hits = {} THEN 0 ELSE SetMin(hits)

\* group 1 of the match that starts at s[i]
DayAt(s, i) == Sub(s, i, i + RunLen(s, i, Digits) - 1)

DayOfMatchAt(s, i) == IF i = 0 THEN None ELSE DayAt(s, i)

\* re.search(r'(\d{1,2})\s+\w+', s).group(1), or None
DayOfDateText(s) == DayOfMatchAt(s, FirstHit(DateTextHits(s)))

\* the date deduplicate_events reads from date_text, or None
DateFromText(date_text) ==
    LET day == DayOfDateText(date_text)
        found == {k \in 1..Len(MonthMap) : Contains(Lower(date_text), MonthMap[k][1])}
    IN  IF day = None \/ found = {} THEN None
        ELSE day \o <<"-">> \o MonthMap[SetMin(found)][2] \o <<"-", "2", "0", "2", "6">>

\* the date re.search(r'-{1,2}(\d{1,2})-(\d{2})-(\d{4})\d*-', event_url) gives,
\* or None
DateFromUrl(event_url) ==
    LET hits == {d \in 2..Len(event_url) :
                    LET n1 == RunLen(event_url, d, Digits)
                        m  == d + n1 + 1
                        n2 == RunLen(event_url, m, Digits)
                        y  == m + n2 + 1
                        n3 == RunLen(event_url, y, Digits)
                    IN  /\ event_url[d - 1] = "-"
                        /\ n1 \in {1, 2} /\ StartsAt(event_url, d + n1, <<"-">>)
                        /\ n2 = 2 /\ StartsAt(event_url, m + n2, <<"-">>)
                        /\ n3 >= 4 /\ StartsAt(event_url, y + n3, <<"-">>)}
    IN  IF hits = {} THEN None
        ELSE LET d  == SetMin(hits)
                 n1 == RunLen(event_url, d, Digits)
             IN  Sub(event_url, d, d + n1 - 1) \o <<"-">>
                   \o Sub(event_url, d + n1 + 1, d + n1 + 2) \o <<"-">>
                   \o Sub(event_url, d + n1 + 4, d + n1 + 7)

\* event_date of deduplicate_events: from _date_parts, else from date_text,
\* else from the URL
EventDate(event, event_url) ==
    IF event.date_parts # <<>>
    THEN event.date_parts[1] \o <<"-">> \o event.date_parts[2] \o <<"-">> \o event.date_parts[3]
    ELSE IF Truthy(event.date_text) THEN DateFromText(event.date_text)
    ELSE IF event_url # <<>> THEN DateFromUrl(event_url)
    ELSE None

\* mutant: the candidate is kept with its normalised URL
KeptWithNormalizedUrl(event, event_url) == [event EXCEPT !.url = event_url]

\* what unique_events.append(event) appends: the candidate as it came
Kept(event, event_url) == event

NoneSeen == [seen_urls |-> {}, seen_codes |-> {}, seen_name_date |-> {}, unique_events |-> <<>>]

\* one iteration of "for event in events"
DedupVisit(st, event) ==
    LET event_url   == NormalizedUrl(event.url)
        event_code  == NormalizedCode(event.code)
        event_name  == Strip(GetStr(event.name))
        is_sala_rem == Contains(Lower(GetStr(event.venue_slug)), <<"s", "a", "l", "a", "-", "r", "e", "m">>)
        event_date  == IF is_sala_rem /\ event_name # <<>>
                       THEN EventDate(event, event_url)
                       ELSE None
        name_date_key == <<NameNormalized(event_name), event_date>>
        keyed == [st EXCEPT !.seen_name_date =
                     IF Truthy(event_date) THEN @ \cup {name_date_key} ELSE @]
    IN  IF event_url # <<>> /\ event_url \in st.seen_urls THEN st
        ELSE IF Truthy(event_date) /\ name_date_key \in st.seen_name_date THEN st
        ELSE IF ~is_sala_rem /\ Truthy(event_code) /\ event_code \in st.seen_codes THEN keyed
        ELSE [keyed EXCEPT
                !.seen_urls = IF event_url # <<>> THEN @ \cup {event_url} ELSE @,
                !.seen_codes = IF Truthy(event_code) THEN @ \cup {event_code} ELSE @,
                !.unique_events = Append(@, Kept(event, event_url))]

RECURSIVE DedupLoop(_, _)
DedupLoop(st, events) ==
    IF events = <<>> THEN st
    ELSE DedupLoop(DedupVisit(st, Head(events)), Tail(events))

\* deduplicate_events(events)
DeduplicateEvents(events) ==
    IF events = <<>> THEN <<>> ELSE DedupLoop(NoneSeen, events).unique_events

(***************************************************************************)
(* SpecDedup: deduplicate_events applied to a list of candidates, and then *)
(* to its own result.                                                      *)
(***************************************************************************)
MaxEvents == 3

Candidate(url, code, name, venue_slug, date_text, date_parts) ==
    [url |-> url, code |-> code, name |-> name, venue_slug |-> venue_slug,
     date_text |-> date_text, date_parts |-> date_parts]

CandidatePool ==
    { Candidate(<<"/", "e", "v", "e", "n", "t", "s", "/", "d", "o", "d", "o", "/", "L", "K", "B", "5">>, <<"L", "K", "B", "5">>, <<"D", "o", "d", "o">>, <<"d", "o", "d", "o", "-", "c", "l", "u", "b">>, None, <<>>),
      Candidate(<<"/", "e", "v", "e", "n", "t", "s", "/", "L", "K", "B", "5">>, <<"L", "K", "B", "5">>, <<"F", "i", "e", "s", "t", "a">>, <<"l", "u", "m", "i", "n", "a", "t", "a", "-", "d", "i", "s", "c", "o">>, None, <<>>),
      Candidate(<<" ", "/", "e", "v", "e", "n", "t", "s", "/", "L", "K", "B", "5", "?", "r", "e", "f", "=", "1">>, <<"a", "b", "1", "2">>, <<"F", "i", "e", "s", "t", "a", " ", "2">>, <<"l", "u", "m", "i", "n", "a", "t", "a", "-", "d", "i", "s", "c", "o">>, None, <<>>),
      Candidate(<<"/", "e", "v", "e", "n", "t", "s", "/", "l", "k", "b", "5">>, <<"l", "k", "b", "5", " ">>, <<"O", "t", "r", "a">>, <<"l", "u", "m", "i", "n", "a", "t", "a", "-", "d", "i", "s", "c", "o">>, <<"9", " ", "e", "n", "e", "r", "o">>, <<>>),
      Candidate(<<"/", "e", "v", "e", "n", "t", "s", "/", "L", "K", "B", "5", " ", "?", "a", "#", "b">>, <<>>, <<"F", "i", "e", "s", "t", "a">>, <<"d", "o", "d", "o", "-", "c", "l", "u", "b">>, None, <<>>),
      Candidate(None, None, None, None, None, <<>>),
      Candidate(<<"/", "e", "v", "e", "n", "t", "s", "/", "n", "o", "c", "h", "e", "-", "-", "0", "9", "-", "0", "1", "-", "2", "0", "2", "6", "-", "H", "Z", "O", "Y">>, <<"H", "Z", "O", "Y">>, <<"N", "o", "c", "h", "e", "!", " ", " ", "B", "l", "a", "n", "c", "a">>, <<"s", "a", "l", "a", "-", "r", "e", "m">>, None, <<>>),
      Candidate(<<"/", "e", "v", "e", "n", "t", "s", "/", "x">>, <<"L", "K", "B", "5">>, <<"n", "o", "c", "h", "e", " ", "b", "l", "a", "n", "c", "a">>, <<"S", "a", "l", "a", "-", "R", "E", "M">>, None, <<<<"0", "9">>, <<"0", "1">>, <<"2", "0", "2", "6">>>>),
      Candidate(<<>>, None, <<" ", "N", "O", "C", "H", "E", "\t", "B", "L", "A", "N", "C", "A", " ">>, <<"s", "a", "l", "a", "-", "r", "e", "m">>, <<"V", "i", "e", "r", "n", "e", "s", " ", "0", "9", " ", "d", "e", " ", "E", "n", "e", "r", "o">>, <<>>),
      Candidate(<<"/", "e", "v", "e", "n", "t", "s", "/", "n", "o", "c", "h", "e", "-", "0", "9", "-", "0", "1", "-", "2", "0", "2", "6", "1", "-", "A", "B", "C", "D">>, <<"A", "B", "C", "D">>, <<"N", "o", "c", "h", "e", " ", "B", "l", "a", "n", "c", "a">>, <<"s", "a", "l", "a", "-", "r", "e", "m">>, <<"p", "r", "o", "n", "t", "o">>, <<>>),
      Candidate(<<"/", "e", "v", "e", "n", "t", "s", "/", "z", "#", "t", "o", "p">>, <<"a", "b", "1", "2">>, <<"N", "o", "c", "h", "e", "_", "B", "l", "a", "n", "c", "a">>, <<"s", "a", "l", "a", "-", "r", "e", "m">>, <<"9", " ", "e", "n", "e", "r", "o", " ", "2", "0", "2", "6">>, <<>>),
      Candidate(<<"/", "e", "v", "e", "n", "t", "s", "/", "n", "o", "c", "h", "e", "-", "9", "-", "0", "1", "-", "2", "0", "2", "6", "-", "Q", "Q", "Q", "Q">>, <<"Q", "Q", "Q", "Q">>, <<"¡", "N", "o", "c", "h", "e", " ", "B", "l", "a", "n", "c", "a", "!">>, <<"s", "a", "l", "a", "-", "r", "e", "m">>, <<>>, <<>>) }

DedupInit ==
    /\ Idle("dedup")
    /\ \E n \in 0..MaxEvents : dEvents \in [1..n -> CandidatePool]
    /\ dOnce = <<>>
    /\ dTwice = <<>>
    /\ dPc = "first"

\* unique = deduplicate_events(events)
DedupFirst ==
    /\ dPc = "first"
    /\ dOnce' = DeduplicateEvents(dEvents)
    /\ dPc' = "second"
    /\ UNCHANGED <<dEvents, dTwice>>
    /\ Frame("dedup")

\* deduplicate_events(unique)
DedupSecond ==
    /\ dPc = "second"
    /\ dTwice' = DeduplicateEvents(dOnce)
    /\ dPc' = "done"
    /\ UNCHANGED <<dEvents, dOnce>>
    /\ Frame("dedup")

DedupNext ==
    \/ DedupFirst
    \/ DedupSecond

SpecDedup == DedupInit /\ [][DedupNext]_vars

(***************************************************************************)
(* C3: deduplicate_events is idempotent: applied to its own result it      *)
(* returns that result, as a list.                                         *)
(***************************************************************************)
C3_DedupIdempotent ==
    dPc = "done" => dTwice = dOnce

\* a list of three candidates of which the second is dropped for its name and
\* date and the third is kept
C3_Witness ==
    /\ dPc = "done"
    /\ Len(dEvents) = 3
    /\ dOnce = <<dEvents[1], dEvents[3]>>
    /\ Contains(Lower(GetStr(dEvents[2].venue_slug)), <<"s", "a", "l", "a", "-", "r", "e", "m">>)
    /\ NormalizedUrl(dEvents[2].url) # NormalizedUrl(dEvents[1].url)
    /\ dTwice = dOnce

(***************************************************************************)
(* NORMALISATION: transform_to_app_format                                  *)
(*                                                                         *)
(* The event read by transform_to_app_format is                            *)
(* [date_parts, date_text, url, hora_inicio, tickets, prices]; None stands *)
(* for a missing key and date_parts is <<>> or <<day, month, year>>.       *)
(* today is datetime.now() as [y, m, d].                                   *)
(***************************************************************************)
DigitChars == <<"0", "1", "2", "3", "4", "5", "6", "7", "8", "9">>

\* str(n) of an int n >= 0
RECURSIVE IntToStr(_)
IntToStr(n) ==
    IF n < 10 THEN <<DigitChars[n + 1]>>
    ELSE IntToStr(n \div 10) \o <<DigitChars[(n % 10) + 1]>>

\* int(s) of a string of digits
RECURSIVE StrToInt(_)
StrToInt(s) ==
    IF s = <<>> THEN 0
    ELSE (StrToInt(Sub(s, 1, Len(s) - 1)) * 10) + (IndexIn(DigitChars, s[Len(s)]) - 1)

IsDigits(s) == s # <<>> /\ \A i \in 1..Len(s) : s[i] \in Digits

\* s.zfill(w) of a string without sign
RECURSIVE ZFill(_, _)
ZFill(s, w) == IF Len(s) >= w THEN s ELSE ZFill(<<"0">> \o s, w)

\* s.replace(a, b) for characters a and b
ReplaceChar(s, a, b) == [i \in 1..Len(s) |-> IF s[i] = a THEN b ELSE s[i]]

IsLeap(y) == (y % 4 = 0) /\ ((y % 100 # 0) \/ (y % 400 = 0))

DaysInMonth(y, m) ==
    IF m = 2 THEN (IF IsLeap(y) THEN 29 ELSE 28)
    ELSE IF m \in {4, 6, 9, 11} THEN 30
    ELSE 31

\* the days before the first of January of year y, counted from 0001-01-01
DaysBeforeYear(y) ==
    ((y - 1) * 365) + ((y - 1) \div 4) - ((y - 1) \div 100) + ((y - 1) \div 400)

RECURSIVE DaysBeforeMonth(_, _)
DaysBeforeMonth(y, m) ==
    IF m = 1 THEN 0 ELSE DaysBeforeMonth(y, m - 1) + DaysInMonth(y, m - 1)

\* date.toordinal()
YmdToOrd(date) == DaysBeforeYear(date[1]) + DaysBeforeMonth(date[1], date[2]) + date[3]

\* date.fromordinal(n), n >= 1
OrdToYmd(n) ==
    LET y == CHOOSE yy \in ((n \div 366) + 1)..((n \div 365) + 1) :
                 DaysBeforeYear(yy) < n /\ n <= DaysBeforeYear(yy + 1)
        r == n - DaysBeforeYear(y)
        m == CHOOSE mm \in 1..12 :
                 DaysBeforeMonth(y, mm) < r /\ r <= DaysBeforeMonth(y, mm) + DaysInMonth(y, mm)
    IN  <<y, m, r - DaysBeforeMonth(y, m)>>

\* d.strftime('%Y-%m-%d')
FormatDate(date) ==
    ZFill(IntToStr(date[1]), 4) \o <<"-">> \o ZFill(IntToStr(date[2]), 2)
        \o <<"-">> \o ZFill(IntToStr(date[3]), 2)

\* datetime.strptime(fecha, '%Y-%m-%d') as <<y, m, d>>, or None where it
\* raises ValueError
ParseDate(fecha) ==
    LET parts == SplitChar(fecha, "-")
    IN  IF Len(parts) # 3 THEN None
        ELSE LET ys == parts[1]
                 ms == parts[2]
                 ds == IF Len(parts[3]) = 2 /\ parts[3][1] = " " /\ parts[3][2] # "0"
                       THEN Tail(parts[3])
                       ELSE parts[3]
             IN  IF ~(IsDigits(ys) /\ Len(ys) = 4) THEN None
                 ELSE IF ~(IsDigits(ms) /\ Len(ms) <= 2 /\ StrToInt(ms) \in 1..12) THEN None
                 ELSE IF ~(IsDigits(ds) /\ Len(ds) <= 2 /\ StrToInt(ds) \in 1..31) THEN None
                 ELSE IF StrToInt(ys) < 1 THEN None
                 ELSE IF StrToInt(ds) > DaysInMonth(StrToInt(ys), StrToInt(ms)) THEN None
                 ELSE <<StrToInt(ys), StrToInt(ms), StrToInt(ds)>>

\* the dict months of transform_to_app_format
Months ==
    << <<<<"e", "n", "e">>, <<"0", "1">>>>, <<<<"f", "e", "b">>, <<"0", "2">>>>, <<<<"m", "a", "r">>, <<"0", "3">>>>, <<<<"a", "b", "r">>, <<"0", "4">>>>,
       <<<<"m", "a", "y">>, <<"0", "5">>>>, <<<<"j", "u", "n">>, <<"0", "6">>>>, <<<<"j", "u", "l">>, <<"0", "7">>>>, <<<<"a", "g", "o">>, <<"0", "8">>>>,
       <<<<"s", "e", "p">>, <<"0", "9">>>>, <<<<"o", "c", "t">>, <<"1", "0">>>>, <<<<"n", "o", "v">>, <<"1", "1">>>>, <<<<"d", "i", "c">>, <<"1", "2">>>>,
       <<<<"e", "n", "e", "r", "o">>, <<"0", "1">>>>, <<<<"f", "e", "b", "r", "e", "r", "o">>, <<"0", "2">>>>, <<<<"m", "a", "r", "z", "o">>, <<"0", "3">>>>,
       <<<<"a", "b", "r", "i", "l">>, <<"0", "4">>>>, <<<<"m", "a", "y", "o">>, <<"0", "5">>>>, <<<<"j", "u", "n", "i", "o">>, <<"0", "6">>>>,
       <<<<"j", "u", "l", "i", "o">>, <<"0", "7">>>>, <<<<"a", "g", "o", "s", "t", "o">>, <<"0", "8">>>>, <<<<"s", "e", "p", "t", "i", "e", "m", "b", "r", "e">>, <<"0", "9">>>>,
       <<<<"o", "c", "t", "u", "b", "r", "e">>, <<"1", "0">>>>, <<<<"n", "o", "v", "i", "e", "m", "b", "r", "e">>, <<"1", "1">>>>, <<<<"d", "i", "c", "i", "e", "m", "b", "r", "e">>, <<"1", "2">>>> >>

\* months.get(month_str, '12')
MonthOf(month_str) ==
    LET found == {k \in 1..Len(Months) : Months[k][1] = month_str}
    IN  IF found = {} THEN <<"1", "2">> ELSE Months[SetMin(found)][2]

\* the run of word characters that starts at s[w]
WordFrom(s, w) == Sub(s, w, w + RunLen(s, w, WordChars) - 1)

\* the word after the white space that starts at s[j]
WordAfterSpaces(s, j) == WordFrom(s, j + RunLen(s, j, SpaceChars))

DayAndWordAt(s, i) ==
    IF i = 0 THEN None
    ELSE <<DayAt(s, i), WordAfterSpaces(s, i + RunLen(s, i, Digits))>>

\* re.search(r'(\d{1,2})\s+(\w+)', s, re.IGNORECASE) as <<group 1, group 2>>,
\* or None
DayAndWord(s) == DayAndWordAt(s, FirstHit(DateTextHits(s)))

\* f"{year}-{month}-{day}", the year being the next one if the month is
\* before the current month
FechaOfDayMonth(day, month, today) ==
    IntToStr(IF StrToInt(month) < today.m THEN today.y + 1 ELSE today.y)
        \o <<"-">> \o month \o <<"-">> \o day

\* datetime.now().strftime('%Y-%m-%d')
TodayFecha(today) == FormatDate(<<today.y, today.m, today.d>>)

FechaOfMatch(match, today) ==
    IF match = None THEN TodayFecha(today)
    ELSE FechaOfDayMonth(ZFill(match[1], 2),
                         MonthOf(Sub(Lower(match[2]), 1, Min(3, Len(match[2])))),
                         today)

\* fecha after the date_text branch
FechaFromText(date_text, today) == FechaOfMatch(DayAndWord(date_text), today)

FechaOfStampParts(p) == p[3] \o <<"-">> \o p[2] \o <<"-">> \o ZFill(p[1], 2)

FechaOfStamp(date) == IF date = None THEN None ELSE FechaOfStampParts(SplitChar(date, "-"))

\* fecha the URL date stamp gives, or None
FechaFromUrl(url) == FechaOfStamp(DateFromUrl(url))

StampOr(stamp, fecha) == IF stamp # None THEN stamp ELSE fecha

\* "Si aún no tenemos fecha, intentar extraer de la URL"
FechaOrUrlStamp(fecha, today_fecha, url) ==
    IF fecha = today_fecha /\ Truthy(url) THEN StampOr(FechaFromUrl(url), fecha) ELSE fecha

\* fecha before the adjustment for the start time
ResolvedFecha(event, today) ==
    IF event.date_parts # <<>>
    THEN event.date_parts[3] \o <<"-">> \o event.date_parts[2] \o <<"-">> \o ZFill(event.date_parts[1], 2)
    ELSE FechaOrUrlStamp(FechaFromText(GetStr(event.date_text), today), TodayFecha(today), event.url)

\* event.get('hora_inicio', '23:00')
HoraInicio(event) == IF event.hora_inicio = None THEN <<"2", "3", ":", "0", "0">> ELSE event.hora_inicio

\* mutant: only the spelling '00:00' is tested
StartsAtMidnightPaddedOnly(hora_inicio) == hora_inicio = <<"0", "0", ":", "0", "0">>

\* "if hora_inicio == '00:00' or hora_inicio == '0:00'"
StartsAtMidnight(hora_inicio) == hora_inicio = <<"0", "0", ":", "0", "0">> \/ hora_inicio = <<"0", ":", "0", "0">>

\* "Ajustar fecha si la hora de inicio es 00:00"; an exception leaves fecha
\* as it is
AdjustedFecha(fecha, hora_inicio) ==
    IF StartsAtMidnight(hora_inicio)
    THEN LET fecha_obj == ParseDate(fecha)
         IN  IF fecha_obj = None THEN fecha
             ELSE IF YmdToOrd(fecha_obj) - 1 < 1 THEN fecha
             ELSE FormatDate(OrdToYmd(YmdToOrd(fecha_obj) - 1))
    ELSE fecha

GeneralTicket(precio, url) ==
    [tipo |-> <<"E", "n", "t", "r", "a", "d", "a", " ", "G", "e", "n", "e", "r", "a", "l">>, precio |-> precio, agotadas |-> FALSE, url_compra |-> url]

\* mutant: no ticket is made up for an event without tickets and prices
EntradasWithoutFallback(event) ==
    IF event.tickets # <<>> THEN event.tickets
    ELSE [i \in 1..Len(event.prices) |->
             GeneralTicket(ReplaceChar(event.prices[i], ",", "."), GetStr(event.url))]

\* entradas of transform_to_app_format
Entradas(event) ==
    LET fromEvent == IF event.tickets # <<>> THEN event.tickets
                     ELSE [i \in 1..Len(event.prices) |->
                              GeneralTicket(ReplaceChar(event.prices[i], ",", "."), GetStr(event.url))]
    IN  IF fromEvent = <<>> THEN <<GeneralTicket(<<"0">>, GetStr(event.url))>> ELSE fromEvent

\* the record transform_to_app_format builds for one event
TransformEvent(event, today) ==
    [fecha |-> AdjustedFecha(ResolvedFecha(event, today), HoraInicio(event)),
     hora_inicio |-> HoraInicio(event),
     url_evento |-> GetStr(event.url),
     entradas |-> Entradas(event)]

(***************************************************************************)
(* SpecTransform: transform_to_app_format applied to one event.            *)
(***************************************************************************)
FirstYear == 2024

LastYear == 2026

DatePartsPool ==
    {<<>>} \cup
    { <<day, month, IntToStr(y)>> :
        day \in {<<"1">>, <<"0", "1">>, <<"1", "5">>, <<"2", "8">>, <<"2", "9">>, <<"3", "1">>},
        month \in {<<"0", "1">>, <<"0", "2">>, <<"3">>, <<"1", "2">>},
        y \in FirstYear..LastYear }

DateTextPool == { None, <<"S", "á", "b", "a", "d", "o", " ", "2", "7", " ", "D", "I", "C">>, <<"1", " ", "e", "n", "e", "r", "o">>, <<"p", "r", "o", "n", "t", "o">> }

EventUrlPool == { None, <<"/", "e", "v", "e", "n", "t", "s", "/", "n", "o", "c", "h", "e", "-", "-", "0", "1", "-", "0", "3", "-", "2", "0", "2", "5", "-", "H", "Z", "O", "Y">>, <<"/", "e", "v", "e", "n", "t", "s", "/", "L", "K", "B", "5">> }

HoraPool == { None, <<"0", "0", ":", "0", "0">>, <<"0", ":", "0", "0">>, <<"0", "0", ":", "0", "1">>, <<"2", "3", ":", "3", "0">>, <<"2", "4", ":", "0", "0">> }

TicketsPool ==
    { <<>>, <<[tipo |-> <<"E", "N", "T", "R", "A", "D", "A", " ", "V", "I", "P">>, precio |-> <<"1", "5">>, agotadas |-> TRUE, url_compra |-> <<"/", "t", "i", "c", "k", "e", "t", "s", "/", "1">>]>> }

PricesPool == { <<>>, <<<<"1", "2", ",", "5">>>> }

TodayPool ==
    { [y |-> LastYear - 1, m |-> 12, d |-> 28], [y |-> LastYear, m |-> 1, d |-> 1],
      [y |-> LastYear - 2, m |-> 3, d |-> 1] }

TransformInit ==
    /\ Idle("transform")
    /\ \E dp \in DatePartsPool, dt \in DateTextPool, u \in EventUrlPool, h \in HoraPool,
          tk \in TicketsPool, pr \in PricesPool :
          tEvent = [date_parts |-> dp, date_text |-> dt, url |-> u, hora_inicio |-> h,
                    tickets |-> tk, prices |-> pr]
    /\ tToday \in TodayPool
    /\ tOut = <<>>
    /\ tPc = "call"

\* transform_to_app_format([event])
TransformCall ==
    /\ tPc = "call"
    /\ tOut' = TransformEvent(tEvent, tToday)
    /\ tPc' = "done"
    /\ UNCHANGED <<tEvent, tToday>>
    /\ Frame("transform")

TransformNext == TransformCall

SpecTransform == TransformInit /\ [][TransformNext]_vars

\* the start time is 00:00: hours and minutes are both zero
C5_IsMidnight(hora) ==
    LET p == SplitChar(hora, ":")
    IN  /\ Len(p) = 2
        /\ IsDigits(p[1]) /\ StrToInt(p[1]) = 0
        /\ IsDigits(p[2]) /\ StrToInt(p[2]) = 0

\* the calendar day before <<y, m, d>>
C5_DayBefore(date) ==
    LET y == date[1]
        m == date[2]
        d == date[3]
        feb == IF y % 4 = 0 /\ (y % 100 # 0 \/ y % 400 = 0) THEN 29 ELSE 28
        last == <<31, feb, 31, 30, 31, 30, 31, 31, 30, 31, 30, 31>>
    IN  IF d > 1 THEN <<y, m, d - 1>>
        ELSE IF m > 1 THEN <<y, m - 1, last[m - 1]>>
        ELSE <<y - 1, 12, 31>>

(***************************************************************************)
(* C5: in transform_to_app_format, when the start time is 00:00 the output *)
(* date is the resolved calendar date minus one day, across month and year *)
(* boundaries too; when the start time is anything else the output date is *)
(* the resolved date.                                                      *)
(***************************************************************************)
C5_MidnightRollsBackOneDay ==
    tPc = "done" =>
        LET resolved == ResolvedFecha(tEvent, tToday)
            date == ParseDate(resolved)
        IN  /\ (C5_IsMidnight(tOut.hora_inicio) /\ date # None) =>
                  tOut.fecha = FormatDate(C5_DayBefore(date))
            /\ ~C5_IsMidnight(tOut.hora_inicio) => tOut.fecha = resolved

\* resolved 2025-12-28 with start 00:00 gives 2025-12-27
C5_Witness ==
    /\ tPc = "done"
    /\ ResolvedFecha(tEvent, tToday) = <<"2", "0", "2", "5", "-", "1", "2", "-", "2", "8">>
    /\ tEvent.hora_inicio = <<"0", "0", ":", "0", "0">>
    /\ tOut.fecha = <<"2", "0", "2", "5", "-", "1", "2", "-", "2", "7">>

(***************************************************************************)
(* MARKDOWN TICKETS: the ticket parser of scrape_event_details             *)
(*                                                                         *)
(* lines is markdown.split('\n'); lines are numbered from 1 here and from  *)
(* 0 in the source. A ticket is the dict the parser builds, where          *)
(* candidate_price_line = 0 stands for a ticket without the key            *)
(* '_candidate_price_line'. Two fields are added to follow where a price   *)
(* came from: header_line, the line that opened the ticket, and            *)
(* precio_line, the line its precio was read from (0: from no line).       *)
(* current_ticket is <<>> for None and <<ticket>> otherwise.               *)
(***************************************************************************)
MAX_DISTANCE == 50

MIN_DISTANCE_FROM_PREVIOUS == 2

SCAN_LINES == 5

TicketKeywords ==
    { <<"E", "N", "T", "R", "A", "D", "A">>, <<"E", "N", "T", "R", "A", "D", "A", "S">>, <<"P", "R", "O", "M", "O", "C", "I", "Ó", "N">>, <<"P", "R", "O", "M", "O", "C", "I", "O", "N">>, <<"V", "I", "P">>, <<"R", "E", "S", "E", "R", "V", "A", "D", "O">>, <<"L", "I", "S", "T", "A">> }

\* l.startswith('- ') and any(keyword in l.upper() for keyword in [...])
IsTicketLine(l) ==
    /\ StartsWith(l, <<"-", " ">>)
    /\ \E keyword \in TicketKeywords : Contains(Upper(l), keyword)

\* ticket_lines: computed on the lines as they are, not stripped
TicketLines(lines) == {j \in 1..Len(lines) : IsTicketLine(lines[j])}

\* the length of group 1 where r'(\d+(?:[,.]\d+)?)\s*€' matches from s[i], or 0
EuroPriceLen(s, i) ==
    LET n == RunLen(s, i, Digits)
        m == IF n >= 1 /\ i + n <= Len(s) /\ s[i + n] \in {",", "."}
             THEN RunLen(s, i + n + 1, Digits)
             ELSE 0
        g == IF m >= 1 THEN n + 1 + m ELSE n
    IN  IF n >= 1 /\ StartsAt(s, i + g + RunLen(s, i + g, SpaceChars), <<"€">>) THEN g ELSE 0

EuroPriceAt(s, i) ==
    IF i = 0 THEN None ELSE ReplaceChar(Sub(s, i, i + EuroPriceLen(s, i) - 1), ",", ".")

\* re.search(r'(\d+(?:[,.]\d+)?)\s*€', s).group(1).replace(',', '.'), or None
EuroPrice(s) == EuroPriceAt(s, FirstHit({i \in 1..Len(s) : EuroPriceLen(s, i) > 0}))

\* re.search(r'^\d+\s*€$', line)
IsStandalonePrice(line) ==
    LET n == RunLen(line, 1, Digits)
    IN  /\ n >= 1
        /\ n + RunLen(line, n + 1, SpaceChars) + 1 = Len(line)
        /\ line[Len(line)] = "€"

\* re.search(r'(\d+)\s*€', line).group(1) of a line that is a price
StandalonePrice(line) == Sub(line, 1, RunLen(line, 1, Digits))

\* the lines the scan for a consumption ticket finds a price on
ScanHits(i, lines) ==
    {j \in (i + 1)..Min(i + SCAN_LINES, Len(lines)) : EuroPrice(Strip(lines[j])) # None}

MentionsConsumption(ticket_name) ==
    \/ Contains(Lower(ticket_name), <<"c", "o", "n", "s", "u", "m", "i", "c", "i", "o", "n">>)
    \/ Contains(Lower(ticket_name), <<"c", "o", "n", "s", "u", "m", "i", "c", "i", "ó", "n">>)

\* "Buscar precio en las siguientes 5 líneas": <<price, line>> of the first
\* match, else the inline price
ScannedPrice(inline, i, lines) ==
    LET hits == ScanHits(i, lines)
    IN  IF hits = {} THEN inline
        ELSE <<EuroPrice(Strip(lines[SetMin(hits)])), SetMin(hits)>>

InlineOf(match, i) == IF match = None THEN <<<<"0">>, 0>> ELSE <<match, i>>

PriceOrScan(inline, ticket_name, i, lines) ==
    IF inline[1] = <<"0">> /\ MentionsConsumption(ticket_name)
    THEN ScannedPrice(inline, i, lines)
    ELSE inline

\* inline_price of the ticket opened on line i, and the line it was read
\* from
HeaderPrice(ticket_name, i, lines) ==
    PriceOrScan(InlineOf(EuroPrice(ticket_name), i), ticket_name, i, lines)

NewTicket(ticket_name, price, i, event_url) ==
    [tipo |-> ticket_name, precio |-> price[1], agotadas |-> FALSE, descripcion |-> <<>>,
     url_compra |-> event_url, candidate_price_line |-> 0,
     header_line |-> i, precio_line |-> price[2]]

OpenNamed(st, i, ticket_name, lines, event_url) ==
    [st EXCEPT
        !.tickets = IF st.current_ticket # <<>> THEN @ \o st.current_ticket ELSE @,
        !.last_ticket_end_line = IF st.current_ticket # <<>> THEN i - 1 ELSE @,
        !.current_ticket = <<NewTicket(ticket_name, HeaderPrice(ticket_name, i, lines), i, event_url)>>,
        !.ticket_start_line = i]

\* the branch "if is_ticket_line"
OpenTicket(st, i, line, lines, event_url) ==
    OpenNamed(st, i, Strip(Sub(line, 3, Len(line))), lines, event_url)

\* "distance_from_current <= max_allowed_distance and
\*  distance_from_previous >= MIN_DISTANCE_FROM_PREVIOUS"
Near(st, i, ticket_lines) ==
    LET later == {tl \in ticket_lines : tl > st.ticket_start_line}
        max_allowed_distance ==
            IF later = {} THEN MAX_DISTANCE
            ELSE Min(SetMin(later) - st.ticket_start_line, MAX_DISTANCE)
    IN  /\ i - st.ticket_start_line <= max_allowed_distance
        /\ st.last_ticket_end_line < 1
              \/ i - st.last_ticket_end_line >= MIN_DISTANCE_FROM_PREVIOUS

\* the branch "elif current_ticket and re.search(r'^\d+\s*€$', line)"
PriceLine(st, i, line, ticket_lines) ==
    IF /\ st.current_ticket[1].precio = <<"0">>
       /\ Near(st, i, ticket_lines)
       /\ st.current_ticket[1].candidate_price_line = 0
             \/ i < st.current_ticket[1].candidate_price_line
    THEN [st EXCEPT !.current_ticket[1].precio = StandalonePrice(line),
                    !.current_ticket[1].candidate_price_line = i,
                    !.current_ticket[1].precio_line = i]
    ELSE st

\* the branch "elif current_ticket and 'agotad' in line.lower()"
SoldOutLine(st, i, ticket_lines) ==
    IF Near(st, i, ticket_lines) THEN [st EXCEPT !.current_ticket[1].agotadas = TRUE] ELSE st

\* the branch "elif current_ticket and ('copa' in line.lower() or ...)"
DescriptionLine(st, i, line, ticket_lines) ==
    IF /\ Near(st, i, ticket_lines)
       /\ st.current_ticket[1].descripcion = <<>>
             \/ Len(line) > Len(st.current_ticket[1].descripcion)
    THEN [st EXCEPT !.current_ticket[1].descripcion = line,
                    !.ticket_descriptions = Append(@, line)]
    ELSE st

IsDescription(line) ==
    \/ Contains(Lower(line), <<"c", "o", "p", "a">>)
    \/ Contains(Lower(line), <<"c", "o", "n", "s", "u", "m", "i", "r">>)
    \/ Contains(Lower(line), <<"a", "l", "c", "o", "h", "o", "l">>)

\* one iteration of "for i, line in enumerate(lines)", line being stripped
ParseStripped(st, i, line, lines, event_url) ==
    IF IsTicketLine(line) THEN OpenTicket(st, i, line, lines, event_url)
    ELSE IF st.current_ticket = <<>> THEN st
    ELSE IF IsStandalonePrice(line) THEN PriceLine(st, i, line, TicketLines(lines))
    ELSE IF Contains(Lower(line), <<"a", "g", "o", "t", "a", "d">>) THEN SoldOutLine(st, i, TicketLines(lines))
    ELSE IF IsDescription(line) THEN DescriptionLine(st, i, line, TicketLines(lines))
    ELSE st

RECURSIVE ParseLines(_, _, _, _)
ParseLines(st, i, lines, event_url) ==
    IF i > Len(lines) THEN st
    ELSE ParseLines(ParseStripped(st, i, Strip(lines[i]), lines, event_url), i + 1, lines, event_url)

ParserStart ==
    [tickets |-> <<>>, current_ticket |-> <<>>, ticket_descriptions |-> <<>>,
     ticket_start_line |-> 0, last_ticket_end_line |-> 0]

\* "Añadir último ticket"
WithLastTicket(st) ==
    IF st.current_ticket # <<>>
    THEN Append(st.tickets, [st.current_ticket[1] EXCEPT !.candidate_price_line = 0])
    ELSE st.tickets

\* ticket_id of the ticket deduplication
TicketId(t) ==
    Lower(Strip(CollapseSpaces(t.tipo))) \o <<"|">> \o ReplaceChar(t.precio, ",", ".")

\* "DEDUPLICACIÓN DE TICKETS": the first ticket of each ticket_id
UniqueTickets(tickets) ==
    LET first == {k \in 1..Len(tickets) :
                     \A j \in 1..(k - 1) : TicketId(tickets[j]) # TicketId(tickets[k])}
    IN  [n \in 1..Cardinality(first) |->
            tickets[CHOOSE k \in first : Cardinality({j \in first : j <= k}) = n]]

\* tickets after the markdown section of scrape_event_details
MarkdownTickets(lines, event_url) ==
    UniqueTickets(WithLastTicket(ParseLines(ParserStart, 1, lines, event_url)))

(***************************************************************************)
(* SpecMarkdown: the markdown section of scrape_event_details applied to a *)
(* page whose lines are some lines of the pool, a gap of empty lines, and  *)
(* some more lines of the pool.                                            *)
(***************************************************************************)
MaxHead == 2

MaxGap == 5

MaxTail == 2

LinePool ==
    { <<"-", " ", "E", "N", "T", "R", "A", "D", "A", " ", "1", " ", "C", "O", "N", "S", "U", "M", "I", "C", "I", "O", "N">>,
      <<"-", " ", "E", "N", "T", "R", "A", "D", "A", " ", "V", "I", "P", " ", "1", "5", "€">>,
      <<" ", " ", "-", " ", "P", "r", "o", "m", "o", "c", "i", "ó", "n", " ", "2", " ", "c", "o", "p", "a", "s">>,
      <<"-", " ", "E", "N", "T", "R", "A", "D", "A", " ", "G", "E", "N", "E", "R", "A", "L">>,
      <<"8", " ", "€">>,
      <<"I", "n", "c", "l", "u", "y", "e", " ", "1", " ", "c", "o", "p", "a", " ", "1", "2", ",", "5", "0", "€">>,
      <<"A", "G", "O", "T", "A", "D", "A", "S">> }

PageUrl == <<"/", "e", "v", "e", "n", "t", "s", "/", "L", "K", "B", "5">>

MarkdownInit ==
    /\ Idle("markdown")
    /\ \E h \in 0..MaxHead, g \in 0..MaxGap, t \in 0..MaxTail :
         /\ h + g + t >= 1
         /\ \E head \in [1..h -> LinePool], tail \in [1..t -> LinePool] :
               mLines = head \o [k \in 1..g |-> <<>>] \o tail
    /\ mTickets = <<>>
    /\ mPc = "parse"

\* "EXTRAER DESCRIPCIÓN Y TICKETS DESDE MARKDOWN"
ParseMarkdown ==
    /\ mPc = "parse"
    /\ mTickets' = MarkdownTickets(mLines, PageUrl)
    /\ mPc' = "done"
    /\ UNCHANGED mLines
    /\ Frame("markdown")

MarkdownNext == ParseMarkdown

SpecMarkdown == MarkdownInit /\ [][MarkdownNext]_vars

(***************************************************************************)
(* C6: in the markdown ticket parser a price never crosses a ticket        *)
(* boundary: the price of the ticket opened by header line h comes from h  *)
(* itself or from a line after h and before the next ticket header line,   *)
(* the forward scan for consumption tickets included.                      *)
(***************************************************************************)
C6_PriceWithinTicketBlock ==
    mPc = "done" =>
        \A n \in 1..Len(mTickets) :
            LET h == mTickets[n].header_line
                p == mTickets[n].precio_line
            IN  \/ p = 0
                \/ p = h
                \/ /\ h < p
                   /\ \A k \in (h + 1)..p : ~IsTicketLine(Strip(mLines[k]))

\* the consumption ticket on line 1 has the price of the ticket on line 2
C6_CrossingReached ==
    /\ mPc = "done"
    /\ mLines = << <<"-", " ", "E", "N", "T", "R", "A", "D", "A", " ", "1", " ", "C", "O", "N", "S", "U", "M", "I", "C", "I", "O", "N">>, <<"-", " ", "E", "N", "T", "R", "A", "D", "A", " ", "V", "I", "P", " ", "1", "5", "€">> >>
    /\ mTickets[1].tipo = <<"E", "N", "T", "R", "A", "D", "A", " ", "1", " ", "C", "O", "N", "S", "U", "M", "I", "C", "I", "O", "N">>
    /\ mTickets[1].precio = <<"1", "5">>
    /\ mTickets[1].precio_line = 2

(***************************************************************************)
(* RECONCILIATION: match_tickets_with_schema                               *)
(*                                                                         *)
(* A markdown ticket is [tipo, precio, agotadas, descripcion, url_compra], *)
(* a schema ticket [tipo, precio, url_compra, agotadas], as the markdown   *)
(* parser and extract_tickets_from_schema build them. Schema tickets are   *)
(* numbered from 1 here and from 0 in the source.                          *)
(***************************************************************************)
\* s.replace(lit, rep)
RECURSIVE ReplaceAll(_, _, _)
ReplaceAll(s, lit, rep) ==
    IF Len(s) < Len(lit) THEN s
    ELSE IF StartsAt(s, 1, lit) THEN rep \o ReplaceAll(Sub(s, Len(lit) + 1, Len(s)), lit, rep)
    ELSE <<Head(s)>> \o ReplaceAll(Tail(s), lit, rep)

\* normalize_name(name)
NormalizeName(name) ==
    IF ~Truthy(name) THEN <<>>
    ELSE ReplaceAll(
            ReplaceAll(
               ReplaceAll(CollapseSpaces(Upper(Strip(name))), <<"P", "R", "O", "M", "O", "C", "I", "Ó", "N">>, <<"P", "R", "O", "M", "O", "C", "I", "O", "N">>),
               <<"C", "O", "N", "S", "U", "M", "I", "C", "I", "Ó", "N">>, <<"C", "O", "N", "S", "U", "M", "I", "C", "I", "O", "N">>),
            <<"C", "O", "N", "S", "U", "M", "I", "C", "I", "O", "N", "E", "S">>, <<"C", "O", "N", "S", "U", "M", "I", "C", "I", "O", "N">>)

\* the list ['0', 'None', '']
NoPrices == { <<"0">>, <<"N", "o", "n", "e">>, <<>> }

\* "x.get('precio') and str(x.get('precio')).strip() not in ['0', 'None', '']"
IsRealPrice(precio) == Truthy(precio) /\ Strip(precio) \notin NoPrices

\* schema_has_prices, markdown_has_prices
HasPrices(tickets) == \E k \in 1..Len(tickets) : IsRealPrice(tickets[k].precio)

\* set(s.split())
Words(s) == {w \in Range(SplitChar(s, " ")) : w # <<>>}

\* schema_dict[norm]: of the schema tickets named norm the last one, or 0
LastNamed(schema_tickets, norm) ==
    LET same == {j \in 1..Len(schema_tickets) : NormalizeName(schema_tickets[j].tipo) = norm}
    IN  IF same = {} THEN 0 ELSE SetMax(same)

\* the first of the candidates with the highest score, or 0
FirstBest(good, score) ==
    IF good = {} THEN 0
    ELSE SetMin({j \in good : \A k \in good : score[k] <= score[j]})

\* best_partial of the first path: the schema ticket sharing most words, two
\* at least
BestPartial(schema_tickets, ticket_norm) ==
    LET score == [j \in 1..Len(schema_tickets) |->
                     Cardinality(Words(ticket_norm) \cap Words(NormalizeName(schema_tickets[j].tipo)))]
    IN  FirstBest({j \in 1..Len(schema_tickets) : score[j] >= 2}, score)

\* mutant: the enriched ticket keeps the label of the schema ticket
EnrichedKeepingSchemaLabel(t, st) ==
    [st EXCEPT !.agotadas = IF t.agotadas = TRUE THEN TRUE ELSE @]

\* enriched_ticket: the schema ticket under the markdown label
Enriched(t, st) ==
    [st EXCEPT !.tipo = t.tipo, !.agotadas = IF t.agotadas = TRUE THEN TRUE ELSE @]

EnrichPartial(t, schema_tickets, j) == IF j # 0 THEN Enriched(t, schema_tickets[j]) ELSE t

EnrichNamed(t, schema_tickets, j) ==
    IF j # 0 THEN Enriched(t, schema_tickets[j])
    ELSE EnrichPartial(t, schema_tickets, BestPartial(schema_tickets, NormalizeName(t.tipo)))

\* one iteration of "for t in markdown_tickets" of the first path
EnrichOne(t, schema_tickets) ==
    EnrichNamed(t, schema_tickets, LastNamed(schema_tickets, NormalizeName(t.tipo)))

WithUnusedNames(enriched, schema_tickets) ==
    enriched \o SelectSeq(schema_tickets,
                    LAMBDA st : \A k \in 1..Len(enriched) :
                                   NormalizeName(st.tipo) # NormalizeName(enriched[k].tipo))

\* "Si schema tiene precios y markdown no, priorizar schema"
PreferSchema(markdown_tickets, schema_tickets) ==
    WithUnusedNames([k \in 1..Len(markdown_tickets) |-> EnrichOne(markdown_tickets[k], schema_tickets)],
                    schema_tickets)

\* the maximal runs of word characters of s
WordRuns(s) ==
    {Sub(s, i, i + RunLen(s, i, WordChars) - 1) :
        i \in {k \in 1..Len(s) : s[k] \in WordChars /\ (k = 1 \/ s[k - 1] \notin WordChars)}}

MatchKeywords ==
    { <<"E", "N", "T", "R", "A", "D", "A">>, <<"V", "I", "P">>, <<"C", "O", "P", "A">>, <<"C", "O", "P", "A", "S">>, <<"C", "O", "N", "S", "U", "M", "I", "C", "I", "O", "N">>, <<"P", "R", "O", "M", "O", "C", "I", "O", "N">>,
      <<"R", "E", "S", "E", "R", "V", "A", "D", "O">>, <<"R", "E", "D", "U", "C", "I", "D", "A">>, <<"A", "N", "T", "I", "C", "I", "P", "A", "D", "A">> }

\* set(re.findall(r'\b(ENTRADA|VIP|...)\b', norm))
Keywords(norm) == WordRuns(norm) \cap MatchKeywords

\* set(re.findall(r'\b(\d+)\b', norm))
Numbers(norm) == {w \in WordRuns(norm) : IsDigits(w)}

NumbersBonus(a, b) == IF a # {} /\ b # {} /\ a = b THEN 2 ELSE 0

\* score of Estrategia 3
KeywordScore(ticket_norm, schema_norm) ==
    Cardinality(Keywords(ticket_norm) \cap Keywords(schema_norm))
        + NumbersBonus(Numbers(ticket_norm), Numbers(schema_norm))

\* Estrategia 1
ExactMatch(t, schema_tickets, free) ==
    FirstHit({j \in free : schema_tickets[j].tipo = t.tipo})

\* Estrategia 2
NormalizedMatch(t, schema_tickets, free) ==
    FirstHit({j \in free : NormalizeName(schema_tickets[j].tipo) = NormalizeName(t.tipo)})

\* Estrategia 3
KeywordMatch(t, schema_tickets, free) ==
    LET score == [j \in 1..Len(schema_tickets) |->
                     KeywordScore(NormalizeName(t.tipo), NormalizeName(schema_tickets[j].tipo))]
    IN  FirstBest({j \in free : score[j] >= 2}, score)

OnlyOne(S) == IF Cardinality(S) = 1 THEN SetMin(S) ELSE 0

\* Estrategia 4
PriceMatch(t, schema_tickets, free) ==
    IF Truthy(t.precio) /\ t.precio # <<"0">>
    THEN OnlyOne({j \in free : /\ schema_tickets[j].precio = t.precio
                               /\ schema_tickets[j].precio \notin NoPrices})
    ELSE 0

OrElse(j, other) == IF j # 0 THEN j ELSE other

\* best_match: the schema ticket matched to t, or 0
BestMatch(t, schema_tickets, free) ==
    OrElse(ExactMatch(t, schema_tickets, free),
           OrElse(NormalizedMatch(t, schema_tickets, free),
                  OrElse(KeywordMatch(t, schema_tickets, free),
                         PriceMatch(t, schema_tickets, free))))

\* mutant: the matched ticket keeps the sold out flag of the markdown
AppliedKeepingMarkdownFlag(t, st) ==
    [t EXCEPT !.url_compra = st.url_compra,
              !.precio = IF Truthy(st.precio) /\ st.precio \notin NoPrices
                         THEN Strip(st.precio) ELSE @]

\* "Aplicar match si se encontró"
Applied(t, st) ==
    [t EXCEPT !.url_compra = st.url_compra,
              !.precio = IF Truthy(st.precio) /\ st.precio \notin NoPrices
                         THEN Strip(st.precio) ELSE @,
              !.agotadas = IF @ # TRUE /\ st.agotadas = TRUE THEN TRUE ELSE @]

MatchWith(acc, t, schema_tickets, j) ==
    IF j # 0
    THEN [used_schema_indices |-> acc.used_schema_indices \cup {j},
          result |-> Append(acc.result, Applied(t, schema_tickets[j]))]
    ELSE [acc EXCEPT !.result = Append(@, t)]

\* one iteration of "for t in markdown_tickets" of the second path
MatchVisit(acc, t, schema_tickets) ==
    MatchWith(acc, t, schema_tickets,
              BestMatch(t, schema_tickets, (1..Len(schema_tickets)) \ acc.used_schema_indices))

RECURSIVE MatchLoop(_, _, _)
MatchLoop(acc, markdown_tickets, schema_tickets) ==
    IF markdown_tickets = <<>> THEN acc
    ELSE MatchLoop(MatchVisit(acc, Head(markdown_tickets), schema_tickets),
                   Tail(markdown_tickets), schema_tickets)

\* "Añadir tickets del schema no usados"
WithUnusedIndices(acc, schema_tickets) ==
    acc.result \o [n \in 1..(Len(schema_tickets) - Cardinality(acc.used_schema_indices)) |->
                      schema_tickets[SortedSeq((1..Len(schema_tickets)) \ acc.used_schema_indices)[n]]]

\* "Si ambos tienen tickets, hacer matching inteligente"
MatchBoth(markdown_tickets, schema_tickets) ==
    WithUnusedIndices(MatchLoop([used_schema_indices |-> {}, result |-> <<>>],
                                markdown_tickets, schema_tickets),
                      schema_tickets)

\* match_tickets_with_schema(markdown_tickets, schema_tickets)
MatchTicketsWithSchema(markdown_tickets, schema_tickets) ==
    IF schema_tickets = <<>> THEN markdown_tickets
    ELSE IF markdown_tickets = <<>> THEN schema_tickets
    ELSE IF HasPrices(schema_tickets) /\ ~HasPrices(markdown_tickets)
    THEN PreferSchema(markdown_tickets, schema_tickets)
    ELSE MatchBoth(markdown_tickets, schema_tickets)

(***************************************************************************)
(* SpecMatch: match_tickets_with_schema applied to markdown tickets and    *)
(* schema tickets of the pools below.                                      *)
(***************************************************************************)
MaxMarkdownTickets == 2

MaxSchemaTickets == 2

MdTicket(tipo, precio, agotadas) ==
    [tipo |-> tipo, precio |-> precio, agotadas |-> agotadas, descripcion |-> <<>>,
     url_compra |-> PageUrl]

SchemaTicket(tipo, precio, url_compra, agotadas) ==
    [tipo |-> tipo, precio |-> precio, url_compra |-> url_compra, agotadas |-> agotadas]

MarkdownTicketPool ==
    { MdTicket(<<"E", "n", "t", "r", "a", "d", "a", " ", "V", "i", "p">>, <<"0">>, FALSE),
      MdTicket(<<"P", "R", "O", "M", "O", "C", "I", "Ó", "N", " ", "2", " ", "c", "o", "p", "a", "s">>, <<"0">>, TRUE),
      MdTicket(<<"E", "n", "t", "r", "a", "d", "a", " ", " ", "1", " ", "c", "o", "n", "s", "u", "m", "i", "c", "i", "ó", "n">>, <<"0">>, FALSE),
      MdTicket(<<"E", "N", "T", "R", "A", "D", "A", " ", "G", "E", "N", "E", "R", "A", "L">>, <<"8">>, FALSE),
      MdTicket(<<"E", "N", "T", "R", "A", "D", "A", " ", "V", "I", "P">>, <<"1", "5">>, FALSE),
      MdTicket(<<"L", "i", "s", "t", "a">>, <<"2", "0">>, FALSE) }

SchemaTicketPool ==
    { SchemaTicket(<<"E", "N", "T", "R", "A", "D", "A", " ", "V", "I", "P">>, <<"1", "5">>, <<"/", "t", "i", "c", "k", "e", "t", "s", "/", "a">>, FALSE),
      SchemaTicket(<<"e", "n", "t", "r", "a", "d", "a", " ", "v", "i", "p">>, <<"2", "0">>, <<"/", "t", "i", "c", "k", "e", "t", "s", "/", "b">>, TRUE),
      SchemaTicket(<<"P", "r", "o", "m", "o", "c", "i", "o", "n", " ", "2", " ", "C", "o", "p", "a", "s">>, <<"0">>, <<"/", "t", "i", "c", "k", "e", "t", "s", "/", "c">>, FALSE),
      SchemaTicket(<<"E", "N", "T", "R", "A", "D", "A", " ", "1", " ", "C", "O", "N", "S", "U", "M", "I", "C", "I", "O", "N", "E", "S">>, <<"N", "o", "n", "e">>, <<"/", "t", "i", "c", "k", "e", "t", "s", "/", "d">>, FALSE),
      SchemaTicket(<<"E", "N", "T", "R", "A", "D", "A", " ", "G", "E", "N", "E", "R", "A", "L">>, <<" ", "8", " ">>, <<"/", "t", "i", "c", "k", "e", "t", "s", "/", "e">>, TRUE),
      SchemaTicket(<<"E", "N", "T", "R", "A", "D", "A", " ", "G", "E", "N", "E", "R", "A", "L">>, <<" ", "0", " ">>, <<"/", "t", "i", "c", "k", "e", "t", "s", "/", "i">>, FALSE),
      SchemaTicket(<<"E", "n", "t", "r", "a", "d", "a", " ", "(", "D", "e", "t", "e", "c", "t", "a", "d", "a", ")">>, <<"0">>, <<"/", "t", "i", "c", "k", "e", "t", "s", "/", "f">>, FALSE),
      SchemaTicket(<<"E", "n", "t", "r", "a", "d", "a", " ", "(", "D", "e", "t", "e", "c", "t", "a", "d", "a", ")">>, <<"0">>, <<"/", "t", "i", "c", "k", "e", "t", "s", "/", "h">>, FALSE),
      SchemaTicket(<<"E", "N", "T", "R", "A", "D", "A", " ", "2", " ", "C", "O", "P", "A", "S">>, <<"1", "2", ".", "5">>, <<"/", "t", "i", "c", "k", "e", "t", "s", "/", "g">>, FALSE) }

MatchInit ==
    /\ Idle("match")
    /\ \E n \in 0..MaxMarkdownTickets : xMarkdown \in [1..n -> MarkdownTicketPool]
    /\ UniqueTickets(xMarkdown) = xMarkdown
    /\ \E n \in 0..MaxSchemaTickets : xSchema \in [1..n -> SchemaTicketPool]
    /\ xResult = <<>>
    /\ xPc = "call"

\* tickets = match_tickets_with_schema(tickets, schema_tickets)
MatchCall ==
    /\ xPc = "call"
    /\ xResult' = MatchTicketsWithSchema(xMarkdown, xSchema)
    /\ xPc' = "done"
    /\ UNCHANGED <<xMarkdown, xSchema>>
    /\ Frame("match")

MatchNext == MatchCall

SpecMatch == MatchInit /\ [][MatchNext]_vars

(***************************************************************************)
(* C7: in match_tickets_with_schema, when some schema ticket has a real    *)
(* price and no markdown ticket has one, every markdown ticket whose       *)
(* normalized label is that of a schema ticket produces a result ticket    *)
(* with the markdown label and the price and purchase URL of the schema    *)
(* ticket of that label (of the last one, if several have it); the result  *)
(* ticket stands where the markdown ticket stood.                          *)
(***************************************************************************)
C7_SchemaPriceUnderMarkdownLabel ==
    (xPc = "done" /\ HasPrices(xSchema) /\ ~HasPrices(xMarkdown)) =>
        \A k \in 1..Len(xMarkdown) :
            LET same == {j \in 1..Len(xSchema) :
                            NormalizeName(xSchema[j].tipo) = NormalizeName(xMarkdown[k].tipo)}
            IN  same # {} =>
                   LET st == xSchema[CHOOSE j \in same : \A i \in same : i <= j]
                   IN  /\ xResult[k].tipo = xMarkdown[k].tipo
                       /\ xResult[k].precio = st.precio
                       /\ xResult[k].url_compra = st.url_compra

\* {Entrada Vip, 0} and {ENTRADA VIP, 15, /tickets/a} give
\* {Entrada Vip, 15, /tickets/a}
C7_Witness ==
    /\ xPc = "done"
    /\ Len(xMarkdown) = 1 /\ xMarkdown[1].tipo = <<"E", "n", "t", "r", "a", "d", "a", " ", "V", "i", "p">> /\ xMarkdown[1].precio = <<"0">>
    /\ Len(xSchema) = 1 /\ xSchema[1].tipo = <<"E", "N", "T", "R", "A", "D", "A", " ", "V", "I", "P">>
    /\ xResult = <<SchemaTicket(<<"E", "n", "t", "r", "a", "d", "a", " ", "V", "i", "p">>, <<"1", "5">>, <<"/", "t", "i", "c", "k", "e", "t", "s", "/", "a">>, FALSE)>>

(***************************************************************************)
(* THE RUN: scrape_all_events, scrape_venue, extract_events_from_html      *)
(*                                                                         *)
(* A document (the html or the rawHtml of a fetched page) is described by  *)
(* its length and by what each extractor finds in it: the links            *)
(* extract_from_html_links accepts, those extract_from_custom_components   *)
(* accepts and those extract_from_raw_html accepts; a markdown text by its *)
(* length and the links extract_from_markdown accepts. A link is the url,  *)
(* code and name the extractor puts in the candidate. The empty string is  *)
(* the document of length 0.                                               *)
(***************************************************************************)
Link(url, code, name) == [url |-> url, code |-> code, name |-> name]

Doc(size, anchors, cards, urls) ==
    [size |-> size, anchors |-> anchors, cards |-> cards, urls |-> urls]

NoDoc == Doc(0, <<>>, <<>>, <<>>)

Md(size, links) == [size |-> size, links |-> links]

NoMd == Md(0, <<>>)

\* venue_slug = venue_url.split('/')[-2] if '/events' in venue_url else ''
VenueSlug(venue_url) ==
    IF Contains(venue_url, <<"/", "e", "v", "e", "n", "t", "s">>)
    THEN SplitChar(venue_url, "/")[Len(SplitChar(venue_url, "/")) - 1]
    ELSE <<>>

\* the candidates an extractor builds from the links it accepts
Candidates(links, venue_slug) ==
    [k \in 1..Len(links) |->
        Candidate(links[k].url, links[k].code, links[k].name, venue_slug, None, <<>>)]

Called(extractor, found) == [extractor |-> extractor, found |-> found]

\* all_events after the calls made so far
RECURSIVE AllEvents(_)
AllEvents(calls) ==
    IF calls = <<>> THEN <<>> ELSE Head(calls).found \o AllEvents(Tail(calls))

\* "html_to_search = raw_html if raw_html and len(raw_html) > len(html) else html"
HtmlToSearch(html, raw_html) ==
    IF raw_html.size > 0 /\ raw_html.size > html.size THEN raw_html ELSE html

\* ESTRATEGIA 1
AfterHtmlLinks(html, venue_slug) ==
    <<Called("extract_from_html_links", Candidates(html.anchors, venue_slug))>>

\* mutant: the second extractor is called whatever the first found
AfterCustomComponentsAlways(calls, html, venue_slug) ==
    Append(calls, Called("extract_from_custom_components", Candidates(html.cards, venue_slug)))

\* ESTRATEGIA 2
AfterCustomComponents(calls, html, venue_slug) ==
    IF AllEvents(calls) = <<>>
    THEN Append(calls, Called("extract_from_custom_components", Candidates(html.cards, venue_slug)))
    ELSE calls

\* ESTRATEGIA 3
AfterRawHtml(calls, html_to_search, venue_slug) ==
    IF AllEvents(calls) = <<>> /\ html_to_search.size > 0
    THEN Append(calls, Called("extract_from_raw_html", Candidates(html_to_search.urls, venue_slug)))
    ELSE calls

\* ESTRATEGIA 4
AfterMarkdown(calls, markdown, venue_slug) ==
    IF AllEvents(calls) = <<>> /\ markdown.size > 0
    THEN Append(calls, Called("extract_from_markdown", Candidates(markdown.links, venue_slug)))
    ELSE calls

\* the extractors extract_events_from_html calls, in the order of the calls,
\* each with the list it returned
ExtractorCalls(html, venue_slug, markdown, raw_html) ==
    AfterMarkdown(
        AfterRawHtml(
            AfterCustomComponents(AfterHtmlLinks(html, venue_slug), html, venue_slug),
            HtmlToSearch(html, raw_html), venue_slug),
        markdown, venue_slug)

\* extract_events_from_html(html, venue_url, markdown, raw_html)
ExtractEventsFromHtml(html, venue_url, markdown, raw_html) ==
    AllEvents(ExtractorCalls(html, VenueSlug(venue_url), markdown, raw_html))

\* is_sala_rem, is_sala_rem_retry
IsSalaRem(url) == Contains(Lower(url), <<"s", "a", "l", "a", "-", "r", "e", "m">>)

\* "html_to_use = raw_html if is_sala_rem and raw_html and len(raw_html) > len(html) else html"
HtmlToUse(url, page) ==
    IF IsSalaRem(url) /\ page.raw_html.size > 0 /\ page.raw_html.size > page.html.size
    THEN page.raw_html ELSE page.html

\* mutant: every venue is fetched again
RetriedVenueAny(url) == TRUE

\* '"dodo" in url.lower() or "sala-rem" in url.lower()'
RetriedVenue(url) == Contains(Lower(url), <<"d", "o", "d", "o">>) \/ Contains(Lower(url), <<"s", "a", "l", "a", "-", "r", "e", "m">>)

\* mutant: scrape_venue without its except clause
VenueOnErrorUncaught == [propagates |-> TRUE, events |-> <<>>]

\* "except Exception as e: ... return []" of scrape_venue
VenueOnError == [propagates |-> FALSE, events |-> <<>>]

\* the calls of "events = extract_events_from_html(html_to_use, url, markdown, raw_html=raw_html)"
CallsOn(url, page) ==
    ExtractorCalls(HtmlToUse(url, page), VenueSlug(url), page.markdown, page.raw_html)

\* scrape_venue up to "if not events and (...)": the exception if the fetch
\* raised, nothing if neither html nor rawHtml came, else the extraction
FirstAttempt(url, page) ==
    IF page.raises
    THEN [propagates |-> VenueOnError.propagates, calls |-> <<>>, retry |-> FALSE]
    ELSE IF page.html.size = 0 /\ page.raw_html.size = 0
    THEN [propagates |-> FALSE, calls |-> <<>>, retry |-> FALSE]
    ELSE [propagates |-> FALSE, calls |-> CallsOn(url, page),
          retry |-> AllEvents(CallsOn(url, page)) = <<>> /\ RetriedVenue(url)]

\* the second attempt of scrape_venue
SecondAttempt(url, page) ==
    IF page.raises
    THEN [propagates |-> VenueOnError.propagates, calls |-> <<>>]
    ELSE [propagates |-> FALSE, calls |-> CallsOn(url, page)]

\* event_url of scrape_event_details, made absolute
DetailUrl(event) ==
    IF StartsWith(event.url, <<"h", "t", "t", "p">>) THEN event.url
    ELSE IF IsSalaRem(event.venue_slug) \/ IsSalaRem(event.url)
    THEN <<"h", "t", "t", "p", "s", ":", "/", "/", "w", "e", "b", ".", "f", "o", "u", "r", "v", "e", "n", "u", "e", "s", ".", "c", "o", "m">> \o event.url
    ELSE <<"h", "t", "t", "p", "s", ":", "/", "/", "s", "i", "t", "e", ".", "f", "o", "u", "r", "v", "e", "n", "u", "e", "s", ".", "c", "o", "m">> \o event.url

\* what the detail page adds to the event: the prices of its tickets, its
\* description and its image
Content(tickets, description, image) ==
    [tickets |-> tickets, description |-> description, image |-> image]

NoContent == Content(<<>>, <<>>, <<>>)

Detailed(event, invalid, content) ==
    [event |-> event, invalid |-> invalid, tickets |-> content.tickets,
     description |-> content.description, image |-> content.image]

\* scrape_event_details(firecrawl, event) from the fetch on: the event as it
\* is when the exception is caught, the event marked _invalid if neither
\* html nor markdown came, else the event with the content of the page
ScrapeEventDetails(event, page) ==
    IF page.raises
    THEN Detailed(event, FALSE, IF page.html \/ page.markdown THEN page.content ELSE NoContent)
    ELSE IF ~page.html /\ ~page.markdown
    THEN Detailed(event, TRUE, NoContent)
    ELSE Detailed(event, FALSE, page.content)

\* has_valid_tickets
HasValidTickets(tickets) == \E k \in 1..Len(tickets) : tickets[k] # <<"0">>

\* mutant: the event without content is dropped whatever its venue
ValidatedEveryVenue(result) ==
    IF result.invalid THEN <<>>
    ELSE IF /\ ~HasValidTickets(result.tickets)
            /\ Strip(result.description) = <<>>
            /\ Strip(result.image) = <<>>
            /\ result.tickets = <<>>
    THEN <<>>
    ELSE <<result>>

\* all_events[i] after the detail fetch: <<>> for None
Validated(result) ==
    IF result.invalid THEN <<>>
    ELSE IF /\ ~HasValidTickets(result.tickets)
            /\ IsSalaRem(result.event.venue_slug)
            /\ Strip(result.description) = <<>>
            /\ Strip(result.image) = <<>>
            /\ result.tickets = <<>>
    THEN <<>>
    ELSE <<result>>

(***************************************************************************)
(* SpecRun: one run of scrape_all_events over the configured venue pages,  *)
(* the fetches answered by the pages and failures of the pools below.      *)
(***************************************************************************)
MaxVenues == 2

VenuePool ==
    { <<"h", "t", "t", "p", "s", ":", "/", "/", "w", "e", "b", ".", "f", "o", "u", "r", "v", "e", "n", "u", "e", "s", ".", "c", "o", "m", "/", "e", "s", "/", "s", "a", "l", "a", "-", "r", "e", "m", "/", "e", "v", "e", "n", "t", "s">>,
      <<"h", "t", "t", "p", "s", ":", "/", "/", "s", "i", "t", "e", ".", "f", "o", "u", "r", "v", "e", "n", "u", "e", "s", ".", "c", "o", "m", "/", "e", "s", "/", "d", "o", "d", "o", "-", "c", "l", "u", "b", "/", "e", "v", "e", "n", "t", "s">>,
      <<"h", "t", "t", "p", "s", ":", "/", "/", "s", "i", "t", "e", ".", "f", "o", "u", "r", "v", "e", "n", "u", "e", "s", ".", "c", "o", "m", "/", "e", "s", "/", "l", "u", "m", "i", "n", "a", "t", "a", "-", "d", "i", "s", "c", "o", "/", "e", "v", "e", "n", "t", "s">> }

LinkA == Link(<<"/", "e", "v", "e", "n", "t", "s", "/", "n", "o", "c", "h", "e", "-", "A", "B", "1", "2">>, <<"A", "B", "1", "2">>, <<"N", "o", "c", "h", "e">>)

LinkA2 == Link(<<"/", "e", "v", "e", "n", "t", "s", "/", "n", "o", "c", "h", "e", "-", "A", "B", "1", "2", "?", "r", "e", "f", "=", "1">>, <<"A", "B", "1", "2">>, <<"N", "o", "c", "h", "e">>)

LinkB == Link(<<"h", "t", "t", "p", "s", ":", "/", "/", "w", "e", "b", ".", "f", "o", "u", "r", "v", "e", "n", "u", "e", "s", ".", "c", "o", "m", "/", "e", "s", "/", "s", "a", "l", "a", "-", "r", "e", "m", "/", "e", "v", "e", "n", "t", "s", "/", "f", "i", "e", "s", "t", "a", "-", "C", "D", "3", "4">>, <<"C", "D", "3", "4">>, <<"F", "i", "e", "s", "t", "a">>)

HtmlPool ==
    { NoDoc,
      Doc(1, <<>>, <<>>, <<>>),
      Doc(1, <<LinkA>>, <<LinkB>>, <<LinkA, LinkB>>),
      Doc(1, <<>>, <<LinkB>>, <<LinkA>>),
      Doc(1, <<>>, <<>>, <<LinkA, LinkA2, LinkB>>) }

RawHtmlPool ==
    { NoDoc,
      Doc(1, <<>>, <<>>, <<LinkA>>),
      Doc(2, <<>>, <<>>, <<LinkB>>) }

MarkdownPool == { NoMd, Md(1, <<>>), Md(1, <<LinkA2>>) }

VenuePage(raises, html, raw_html, markdown) ==
    [raises |-> raises, html |-> html, raw_html |-> raw_html, markdown |-> markdown]

VenuePages ==
    {VenuePage(TRUE, NoDoc, NoDoc, NoMd)} \cup
    {VenuePage(FALSE, h, r, m) : h \in HtmlPool, r \in RawHtmlPool, m \in MarkdownPool}

ContentPool ==
    { NoContent,
      Content(<<<<"0">>>>, <<>>, <<>>),
      Content(<<<<"1", "5">>>>, <<>>, <<>>),
      Content(<<>>, <<"F", "i", "e", "s", "t", "a", " ", "h", "a", "s", "t", "a", " ", "e", "l", " ", "a", "m", "a", "n", "e", "c", "e", "r">>, <<>>),
      Content(<<>>, <<>>, <<"h", "t", "t", "p", "s", ":", "/", "/", "f", "o", "u", "r", "v", "e", "n", "u", "e", "s", ".", "c", "o", "m", "/", "i", ".", "j", "p", "g">>) }

DetailPages ==
    [raises : BOOLEAN, html : BOOLEAN, markdown : BOOLEAN, content : ContentPool]

Fetch(kind, unit, url, raised) ==
    [kind |-> kind, unit |-> unit, url |-> url, raised |-> raised]

RunInit ==
    /\ Idle("run")
    /\ \E n \in 1..MaxVenues : rUrls \in [1..n -> VenuePool]
    /\ rGetDetails \in BOOLEAN
    /\ rPc = "venue"
    /\ rV = 1
    /\ rFirst = <<>>
    /\ rCalls = <<>>
    /\ rAll = <<>>
    /\ rUnique = <<>>
    /\ rI = 0
    /\ rResults = <<>>
    /\ rDetailed = <<>>
    /\ rOut = <<>>
    /\ rLog = <<>>

\* "for url in target_urls: events = scrape_venue(firecrawl, url)", up to
\* the first extraction
FirstFetch ==
    /\ rPc = "venue"
    /\ \E page \in VenuePages :
          /\ rFirst' = <<[raised |-> page.raises,
                          content |-> page.html.size > 0 \/ page.raw_html.size > 0,
                          found |-> Len(AllEvents(FirstAttempt(rUrls[rV], page).calls))]>>
          /\ rCalls' = FirstAttempt(rUrls[rV], page).calls
          /\ rPc' = IF FirstAttempt(rUrls[rV], page).propagates THEN "crashed"
                    ELSE IF FirstAttempt(rUrls[rV], page).retry THEN "retry"
                    ELSE "venue_done"
          /\ rLog' = Append(rLog, Fetch("venue", rV, rUrls[rV], page.raises))
    /\ UNCHANGED <<rUrls, rGetDetails, rV, rAll, rUnique, rI, rResults, rDetailed, rOut>>
    /\ Frame("run")

\* "Reintentando con scroll profundo..."
SecondFetch ==
    /\ rPc = "retry"
    /\ \E page \in VenuePages :
          /\ rCalls' = SecondAttempt(rUrls[rV], page).calls
          /\ rPc' = IF SecondAttempt(rUrls[rV], page).propagates THEN "crashed"
                    ELSE "venue_done"
          /\ rLog' = Append(rLog, Fetch("venue", rV, rUrls[rV], page.raises))
    /\ UNCHANGED <<rUrls, rGetDetails, rV, rFirst, rAll, rUnique, rI, rResults, rDetailed, rOut>>
    /\ Frame("run")

\* scrape_venue returns and "all_events.extend(events)"; after the last
\* venue, "all_events = deduplicate_events(all_events)" if details are asked
\* for and there are events
VenueReturn ==
    /\ rPc = "venue_done"
    /\ rAll' = rAll \o AllEvents(rCalls)
    /\ rFirst' = <<>>
    /\ rCalls' = <<>>
    /\ IF rV < Len(rUrls)
       THEN /\ rV' = rV + 1
            /\ rPc' = "venue"
            /\ UNCHANGED <<rUnique, rI>>
       ELSE IF rGetDetails /\ rAll' # <<>>
       THEN /\ rUnique' = DeduplicateEvents(rAll')
            /\ rI' = 1
            /\ rPc' = "detail"
            /\ rV' = rV
       ELSE /\ rPc' = "filter"
            /\ UNCHANGED <<rV, rUnique, rI>>
    /\ UNCHANGED <<rUrls, rGetDetails, rResults, rDetailed, rOut, rLog>>
    /\ Frame("run")

\* one iteration of "for i, event in enumerate(all_events)"
DetailFetch ==
    /\ rPc = "detail"
    /\ \E page \in DetailPages :
          /\ rDetailed' = Append(rDetailed, ScrapeEventDetails(rUnique[rI], page))
          /\ rResults' = Append(rResults, Validated(ScrapeEventDetails(rUnique[rI], page)))
          /\ rLog' = Append(rLog, Fetch("detail", rI, DetailUrl(rUnique[rI]), page.raises))
    /\ IF rI < Len(rUnique)
       THEN rI' = rI + 1 /\ rPc' = "detail"
       ELSE rI' = rI /\ rPc' = "filter"
    /\ UNCHANGED <<rUrls, rGetDetails, rV, rFirst, rCalls, rAll, rUnique, rOut>>
    /\ Frame("run")

\* "all_events = [e for e in all_events if e is not None and not e.get('_invalid')]"
FilterInvalid ==
    /\ rPc = "filter"
    /\ rOut' = IF rI = 0
               THEN [k \in 1..Len(rAll) |-> Detailed(rAll[k], FALSE, NoContent)]
               ELSE Concat(rResults)
    /\ rPc' = "done"
    /\ UNCHANGED <<rUrls, rGetDetails, rV, rFirst, rCalls, rAll, rUnique, rI, rResults, rDetailed,
                    rLog>>
    /\ Frame("run")

RunNext == FirstFetch \/ SecondFetch \/ VenueReturn \/ DetailFetch \/ FilterInvalid

SpecRun == RunInit /\ [][RunNext]_vars

(***************************************************************************)
(* C8: in extract_events_from_html the extractors are called in the order  *)
(* html links, custom components, raw html, markdown; an extractor is      *)
(* called only if every extractor called before it returned no candidate;  *)
(* so the list returned is the list of the last extractor called.          *)
(***************************************************************************)
C8_Rank(extractor) ==
    CASE extractor = "extract_from_html_links" -> 1
      [] extractor = "extract_from_custom_components" -> 2
      [] extractor = "extract_from_raw_html" -> 3
      [] extractor = "extract_from_markdown" -> 4

C8_ExtractorsInOrderOneSource ==
    rCalls # <<>> =>
        /\ rCalls[1].extractor = "extract_from_html_links"
        /\ \A k \in 2..Len(rCalls) :
              /\ C8_Rank(rCalls[k - 1].extractor) < C8_Rank(rCalls[k].extractor)
              /\ \A j \in 1..(k - 1) : rCalls[j].found = <<>>
        /\ AllEvents(rCalls) = rCalls[Len(rCalls)].found

\* the four extractors were called and only the last found something
C8_Witness ==
    /\ Len(rCalls) = 4
    /\ rCalls[4].extractor = "extract_from_markdown"
    /\ rCalls[4].found # <<>>
    /\ rPc = "venue_done"

(***************************************************************************)
(* C9: scrape_venue fetches a venue page a second time exactly when the    *)
(* first fetch returned html or rawHtml, the extraction found no candidate *)
(* and the venue URL names dodo or sala-rem; it never fetches a page a     *)
(* third time.                                                             *)
(***************************************************************************)
C9_Fetches(unit) ==
    Cardinality({n \in 1..Len(rLog) : rLog[n].kind = "venue" /\ rLog[n].unit = unit})

C9_Named(url) ==
    \E i \in 1..Len(url) :
        \/ i + 3 <= Len(url) /\ Lower(Sub(url, i, i + 3)) = <<"d", "o", "d", "o">>
        \/ i + 7 <= Len(url) /\ Lower(Sub(url, i, i + 7)) = <<"s", "a", "l", "a", "-", "r", "e", "m">>

C9_RetryOnlyForNamedVenuesWithContent ==
    /\ \A unit \in 1..Len(rUrls) : C9_Fetches(unit) <= 2
    /\ rPc = "venue_done" =>
          (C9_Fetches(rV) = 2 <=>
              /\ ~rFirst[1].raised
              /\ rFirst[1].content
              /\ rFirst[1].found = 0
              /\ C9_Named(rUrls[rV]))

\* the statement as claimed: a second fetch exactly when the first attempt
\* found no candidate
C9_Original_RetryWheneverNothingFound ==
    /\ \A unit \in 1..Len(rUrls) : C9_Fetches(unit) <= 2
    /\ rPc = "venue_done" => (C9_Fetches(rV) = 2 <=> rFirst[1].found = 0)

\* a sala-rem page fetched twice, its first attempt having found nothing
C9_Witness ==
    /\ rPc = "venue_done"
    /\ C9_Fetches(rV) = 2
    /\ rFirst[1].found = 0
    /\ rUrls[rV] = <<"h", "t", "t", "p", "s", ":", "/", "/", "w", "e", "b", ".", "f", "o", "u", "r", "v", "e", "n", "u", "e", "s", ".", "c", "o", "m", "/", "e", "s", "/", "s", "a", "l", "a", "-", "r", "e", "m", "/", "e", "v", "e", "n", "t", "s">>

(***************************************************************************)
(* C10: whatever the fetches return or raise, scrape_all_events does not   *)
(* stop early: it fetches every configured venue, in the configured order, *)
(* and then, if details are asked for, fetches the detail page of each     *)
(* candidate of the deduplicated list exactly once, in the order of that   *)
(* list.                                                                   *)
(***************************************************************************)
C10_Fetched(kind) ==
    LET made == SelectSeq(rLog, LAMBDA f : f.kind = kind)
    IN  [n \in 1..Len(made) |-> <<made[n].unit, made[n].url>>]

\* the venue fetches that are not the second fetch of a page
C10_FirstFetched ==
    LET first == SelectSeq([n \in 1..Len(rLog) |->
                               [f |-> rLog[n],
                                again |-> n > 1 /\ rLog[n - 1].kind = "venue"
                                                /\ rLog[n - 1].unit = rLog[n].unit]],
                           LAMBDA x : x.f.kind = "venue" /\ ~x.again)
    IN  [n \in 1..Len(first) |-> <<first[n].f.unit, first[n].f.url>>]

C10_NoUnitAbortsItsSiblings ==
    /\ rPc # "crashed"
    /\ rPc = "done" =>
          /\ C10_FirstFetched = [v \in 1..Len(rUrls) |-> <<v, rUrls[v]>>]
          /\ \A n \in 1..Len(rLog), m \in 1..Len(rLog) :
                (rLog[n].kind = "venue" /\ rLog[m].kind = "detail") => n < m
          /\ rGetDetails =>
                C10_Fetched("detail") =
                    [k \in 1..Len(rUnique) |-> <<k, DetailUrl(rUnique[k])>>]

\* a run in which the fetch of the first of two venues raised, the second
\* venue gave candidates, and the detail fetch of the first of two
\* candidates raised
C10_Witness ==
    /\ rPc = "done"
    /\ rGetDetails
    /\ Len(rUrls) = 2
    /\ rLog[1].raised
    /\ Len(rUnique) = 2
    /\ \E n \in 1..Len(rLog) :
          /\ rLog[n] = Fetch("detail", 1, DetailUrl(rUnique[1]), TRUE)
          /\ n < Len(rLog)
          /\ rLog[n + 1] = Fetch("detail", 2, DetailUrl(rUnique[2]), FALSE)
(***************************************************************************)
(* C11: scrape_all_events drops a deduplicated candidate exactly when its  *)
(* detail fetch returned neither html nor markdown, or when its venue slug *)
(* names sala-rem and the detail fetch left it without tickets,            *)
(* description and image; a candidate of another venue whose detail fetch  *)
(* returned content or raised is kept.                                     *)
(***************************************************************************)
C11_SalaRem(venue_slug) ==
    \E i \in 1..Len(venue_slug) :
        i + 7 <= Len(venue_slug) /\ Lower(SubSeq(venue_slug, i, i + 7)) = <<"s", "a", "l", "a", "-", "r", "e", "m">>

C11_Bare(result) ==
    /\ result.tickets = <<>>
    /\ Strip(result.description) = <<>>
    /\ Strip(result.image) = <<>>

C11_Dropped(k) == rResults[k] = <<>>

C11_DroppedWhenEmptyOrBareSalaRem ==
    /\ Len(rDetailed) = Len(rResults)
    /\ \A n \in 1..Len(rLog) :
          (rLog[n].kind = "detail" /\ rLog[n].raised) => ~rDetailed[rLog[n].unit].invalid
    /\ \A k \in 1..Len(rResults) :
          /\ C11_Dropped(k) <=>
                \/ rDetailed[k].invalid
                \/ C11_SalaRem(rDetailed[k].event.venue_slug) /\ C11_Bare(rDetailed[k])
    /\ rPc = "done" /\ rI > 0 =>
          rOut = Concat([k \in 1..Len(rResults) |->
                            IF C11_Dropped(k) THEN <<>> ELSE <<rDetailed[k]>>])

\* the statement as claimed: a candidate is dropped only when its detail
\* fetch returned no page content
C11_Original_DroppedOnlyWithoutContent ==
    \A k \in 1..Len(rResults) : C11_Dropped(k) => rDetailed[k].invalid

\* a sala-rem candidate dropped though its detail fetch raised
C11_Witness ==
    /\ rPc = "done"
    /\ \E k \in 1..Len(rResults) :
          /\ C11_Dropped(k)
          /\ ~rDetailed[k].invalid
          /\ \E n \in 1..Len(rLog) :
                rLog[n].kind = "detail" /\ rLog[n].unit = k /\ rLog[n].raised
    /\ \E k \in 1..Len(rResults) : ~C11_Dropped(k)

(***************************************************************************)
(* C12: every record of transform_to_app_format has at least one ticket:   *)
(* an event without tickets and without prices gets exactly one ticket     *)
(* 'Entrada General' with precio '0', agotadas false and url_compra the    *)
(* URL of the event; an event with tickets gets its tickets and no other.  *)
(***************************************************************************)
C12_TicketListNeverEmpty ==
    tPc = "done" =>
        /\ Len(tOut.entradas) >= 1
        /\ (tEvent.tickets = <<>> /\ tEvent.prices = <<>>) =>
              tOut.entradas =
                  << [tipo |-> <<"E", "n", "t", "r", "a", "d", "a", " ", "G", "e", "n", "e", "r", "a", "l">>, precio |-> <<"0">>, agotadas |-> FALSE,
                      url_compra |-> IF tEvent.url = None THEN <<>> ELSE tEvent.url] >>
        /\ tEvent.tickets # <<>> => tOut.entradas = tEvent.tickets

\* an event with a URL and neither tickets nor prices
C12_Witness ==
    /\ tPc = "done"
    /\ tEvent.tickets = <<>>
    /\ tEvent.prices = <<>>
    /\ tEvent.url = <<"/", "e", "v", "e", "n", "t", "s", "/", "L", "K", "B", "5">>
    /\ Len(tOut.entradas) = 1
    /\ tOut.entradas[1].url_compra = <<"/", "e", "v", "e", "n", "t", "s", "/", "L", "K", "B", "5">>
    /\ tOut.entradas[1].precio = <<"0">>

(***************************************************************************)
(* C13: in the ticket list match_tickets_with_schema returns for an event, *)
(* whose markdown tickets went through the ticket deduplication, no two    *)
(* tickets have the same label (white space collapsed, lower case) and the *)
(* same price.                                                             *)
(***************************************************************************)
C13_Key(t) ==
    <<Lower(Strip(CollapseSpaces(GetStr(t.tipo)))), ReplaceChar(GetStr(t.precio), ",", ".")>>

C13_FinalTicketsUnique ==
    xPc = "done" =>
        \A i \in 1..Len(xResult), j \in 1..Len(xResult) :
            i # j => C13_Key(xResult[i]) # C13_Key(xResult[j])

\* no markdown ticket and two ticket URLs found in the raw html: two
\* tickets 'Entrada (Detectada)' at price '0'
C13_TwoDetectedTickets ==
    /\ xPc = "done"
    /\ xMarkdown = <<>>
    /\ Len(xSchema) = 2
    /\ xSchema[1].url_compra # xSchema[2].url_compra
    /\ Len(xResult) = 2
    /\ xResult[1].tipo = <<"E", "n", "t", "r", "a", "d", "a", " ", "(", "D", "e", "t", "e", "c", "t", "a", "d", "a", ")">>
    /\ xResult[2].tipo = <<"E", "n", "t", "r", "a", "d", "a", " ", "(", "D", "e", "t", "e", "c", "t", "a", "d", "a", ")">>
    /\ xResult[1].precio = <<"0">>
    /\ xResult[2].precio = <<"0">>

(***************************************************************************)
(* SCHEMA TICKETS: extract_tickets_from_schema                             *)
(*                                                                         *)
(* The html is described by its JSON-LD scripts, each the list of the      *)
(* offers of its items, and by the set of URLs the fallback pattern        *)
(* matches in it. An offer is [type, url, name, price, availability,       *)
(* availabilityStatus, inventoryLevel]: None stands for a key the offer    *)
(* lacks, type "<raises>" for an entry whose handling raises (it is not a  *)
(* dict), and inventoryLevel is [dict, value]: dict tells whether the      *)
(* field is a dict, value is inventoryLevel.get('value', 0).               *)
(***************************************************************************)
\* availability_str
AvailabilityStr(availability) == IF Truthy(availability) THEN Lower(availability) ELSE <<>>

\* is_sold_out: the conditional expression spans the whole chain of "or"
IsSoldOut(offer) ==
    IF offer.inventoryLevel.dict
    THEN \/ offer.availability = <<"h", "t", "t", "p", ":", "/", "/", "s", "c", "h", "e", "m", "a", ".", "o", "r", "g", "/", "O", "u", "t", "O", "f", "S", "t", "o", "c", "k">>
         \/ offer.availability = <<"h", "t", "t", "p", "s", ":", "/", "/", "s", "c", "h", "e", "m", "a", ".", "o", "r", "g", "/", "O", "u", "t", "O", "f", "S", "t", "o", "c", "k">>
         \/ Contains(AvailabilityStr(offer.availability), <<"o", "u", "t", "o", "f", "s", "t", "o", "c", "k">>)
         \/ Contains(AvailabilityStr(offer.availability), <<"s", "o", "l", "d", "o", "u", "t">>)
         \/ offer.availabilityStatus = <<"S", "o", "l", "d", "O", "u", "t">>
         \/ offer.inventoryLevel.value = 0
    ELSE FALSE

\* str(price)
StrOfPrice(price) == IF price = None THEN <<"N", "o", "n", "e">> ELSE price

\* the tickets one offer adds
OfferTickets(offer) ==
    IF offer.type = "Offer" /\ Truthy(offer.url) /\ Contains(offer.url, <<"/", "t", "i", "c", "k", "e", "t", "s", "/">>)
    THEN <<SchemaTicket(offer.name, StrOfPrice(offer.price), offer.url, IsSoldOut(offer))>>
    ELSE <<>>

\* the tickets of one script: those of its offers up to the first whose
\* handling raises ("except: continue")
RECURSIVE ScriptTickets(_)
ScriptTickets(offers) ==
    IF offers = <<>> \/ Head(offers).type = "<raises>" THEN <<>>
    ELSE OfferTickets(Head(offers)) \o ScriptTickets(Tail(offers))

RECURSIVE JsonLdTickets(_)
JsonLdTickets(scripts) ==
    IF scripts = <<>> THEN <<>>
    ELSE ScriptTickets(Head(scripts)) \o JsonLdTickets(Tail(scripts))

\* the ticket of the fallback for one matched URL
DetectedTicket(url) == SchemaTicket(<<"E", "n", "t", "r", "a", "d", "a", " ", "(", "D", "e", "t", "e", "c", "t", "a", "d", "a", ")">>, <<"0">>, url, FALSE)

\* the lists extract_tickets_from_schema(html) can return: "for url in
\* set(matches)" visits the matched URLs in any order
ExtractTicketsFromSchema(scripts, matches) ==
    IF JsonLdTickets(scripts) # <<>> THEN {JsonLdTickets(scripts)}
    ELSE {[k \in 1..Cardinality(matches) |-> DetectedTicket(order[k])] :
             order \in {o \in [1..Cardinality(matches) -> matches] :
                           \A i, j \in 1..Cardinality(matches) : i # j => o[i] # o[j]}}

(***************************************************************************)
(* SpecSchema: extract_tickets_from_schema applied to an html of up to     *)
(* MaxScripts scripts of up to MaxOffers offers of the pool.               *)
(***************************************************************************)
MaxScripts == 2

MaxOffers == 2

Offer(type, url, name, price, availability, availabilityStatus, inventoryLevel) ==
    [type |-> type, url |-> url, name |-> name, price |-> price,
     availability |-> availability, availabilityStatus |-> availabilityStatus,
     inventoryLevel |-> inventoryLevel]

NoInventory == [dict |-> FALSE, value |-> 0]

Inventory(value) == [dict |-> TRUE, value |-> value]

OfferPool ==
    { Offer("Offer", <<"h", "t", "t", "p", "s", ":", "/", "/", "f", "v", ".", "c", "o", "m", "/", "t", "i", "c", "k", "e", "t", "s", "/", "a">>, <<"V", "I", "P">>, <<"1", "5">>,
            <<"h", "t", "t", "p", "s", ":", "/", "/", "s", "c", "h", "e", "m", "a", ".", "o", "r", "g", "/", "O", "u", "t", "O", "f", "S", "t", "o", "c", "k">>, None, NoInventory),
      Offer("Offer", <<"h", "t", "t", "p", "s", ":", "/", "/", "f", "v", ".", "c", "o", "m", "/", "t", "i", "c", "k", "e", "t", "s", "/", "b">>, <<"G", "e", "n", "e", "r", "a", "l">>, <<"1", "0">>,
            <<"h", "t", "t", "p", ":", "/", "/", "s", "c", "h", "e", "m", "a", ".", "o", "r", "g", "/", "O", "u", "t", "O", "f", "S", "t", "o", "c", "k">>, None, Inventory(5)),
      Offer("Offer", <<"h", "t", "t", "p", "s", ":", "/", "/", "f", "v", ".", "c", "o", "m", "/", "t", "i", "c", "k", "e", "t", "s", "/", "c">>, <<"C", "o", "p", "a">>, None,
            <<"h", "t", "t", "p", "s", ":", "/", "/", "s", "c", "h", "e", "m", "a", ".", "o", "r", "g", "/", "I", "n", "S", "t", "o", "c", "k">>, None, Inventory(0)),
      Offer("Offer", <<"h", "t", "t", "p", "s", ":", "/", "/", "f", "v", ".", "c", "o", "m", "/", "t", "i", "c", "k", "e", "t", "s", "/", "d">>, None, <<"1", "2", ".", "5">>,
            None, <<"S", "o", "l", "d", "O", "u", "t">>, NoInventory),
      Offer("Offer", <<"h", "t", "t", "p", "s", ":", "/", "/", "f", "v", ".", "c", "o", "m", "/", "t", "i", "c", "k", "e", "t", "s", "/", "e">>, <<"P", "r", "o", "m", "o">>, <<"8">>,
            <<"S", "o", "l", "d", "O", "u", "t">>, None, Inventory(3)),
      Offer("Offer", <<"h", "t", "t", "p", "s", ":", "/", "/", "f", "v", ".", "c", "o", "m", "/", "t", "i", "c", "k", "e", "t", "s", "/", "f">>, <<"N", "o", "r", "m", "a", "l">>, <<"9">>,
            <<"h", "t", "t", "p", "s", ":", "/", "/", "s", "c", "h", "e", "m", "a", ".", "o", "r", "g", "/", "I", "n", "S", "t", "o", "c", "k">>, None, NoInventory),
      Offer("Offer", <<"h", "t", "t", "p", "s", ":", "/", "/", "f", "v", ".", "c", "o", "m", "/", "e", "v", "e", "n", "t", "s", "/", "x">>, <<"E", "v", "e", "n", "t", "o">>, <<"9">>,
            <<"h", "t", "t", "p", "s", ":", "/", "/", "s", "c", "h", "e", "m", "a", ".", "o", "r", "g", "/", "O", "u", "t", "O", "f", "S", "t", "o", "c", "k">>, None, Inventory(0)),
      Offer("AggregateOffer", <<"h", "t", "t", "p", "s", ":", "/", "/", "f", "v", ".", "c", "o", "m", "/", "t", "i", "c", "k", "e", "t", "s", "/", "g">>, <<"T", "o", "d", "o">>, <<"9">>,
            <<"h", "t", "t", "p", "s", ":", "/", "/", "s", "c", "h", "e", "m", "a", ".", "o", "r", "g", "/", "O", "u", "t", "O", "f", "S", "t", "o", "c", "k">>, None, Inventory(0)),
      Offer("<raises>", None, None, None, None, None, NoInventory) }

MatchedUrlPool ==
    { {}, {<<"h", "t", "t", "p", "s", ":", "/", "/", "f", "v", ".", "c", "o", "m", "/", "t", "i", "c", "k", "e", "t", "s", "/", "a", "a", "a", "a", "a", "a", "a", "a", "a", "a", "a", "a", "a", "a", "a", "a", "a", "a", "a", "a">>},
      {<<"h", "t", "t", "p", "s", ":", "/", "/", "f", "v", ".", "c", "o", "m", "/", "t", "i", "c", "k", "e", "t", "s", "/", "a", "a", "a", "a", "a", "a", "a", "a", "a", "a", "a", "a", "a", "a", "a", "a", "a", "a", "a", "a">>,
       <<"h", "t", "t", "p", "s", ":", "/", "/", "f", "v", ".", "c", "o", "m", "/", "t", "i", "c", "k", "e", "t", "s", "/", "b", "b", "b", "b", "b", "b", "b", "b", "b", "b", "b", "b", "b", "b", "b", "b", "b", "b", "b", "b">>} }

SchemaInit ==
    /\ Idle("schema")
    /\ \E n \in 0..MaxScripts :
          hScripts \in [1..n -> UNION {[1..m -> OfferPool] : m \in 0..MaxOffers}]
    /\ hMatches \in MatchedUrlPool
    /\ hTickets = <<>>
    /\ hPc = "call"

\* schema_tickets = extract_tickets_from_schema(raw_html)
SchemaCall ==
    /\ hPc = "call"
    /\ hTickets' \in ExtractTicketsFromSchema(hScripts, hMatches)
    /\ hPc' = "done"
    /\ UNCHANGED <<hScripts, hMatches>>
    /\ Frame("schema")

SchemaNext == SchemaCall

SpecSchema == SchemaInit /\ [][SchemaNext]_vars

(***************************************************************************)
(* C14: in extract_tickets_from_schema every Offer with a tickets URL      *)
(* whose availability is an out-of-stock spelling (the schema.org          *)
(* OutOfStock URLs, a value containing 'outofstock' or 'soldout', or       *)
(* availabilityStatus 'SoldOut') yields a ticket with agotadas true,       *)
(* whether or not the offer has an inventoryLevel.                         *)
(***************************************************************************)
C14_OutOfStock(offer) ==
    \/ offer.availability \in { <<"h", "t", "t", "p", ":", "/", "/", "s", "c", "h", "e", "m", "a", ".", "o", "r", "g", "/", "O", "u", "t", "O", "f", "S", "t", "o", "c", "k">>,
                                <<"h", "t", "t", "p", "s", ":", "/", "/", "s", "c", "h", "e", "m", "a", ".", "o", "r", "g", "/", "O", "u", "t", "O", "f", "S", "t", "o", "c", "k">>, <<"S", "o", "l", "d", "O", "u", "t">> }
    \/ offer.availabilityStatus = <<"S", "o", "l", "d", "O", "u", "t">>

\* the offers the function reaches: those before the first entry of their
\* script that raises
C14_Reached ==
    {o \in OfferPool :
        \E s \in 1..Len(hScripts) : \E k \in 1..Len(hScripts[s]) :
            /\ hScripts[s][k] = o
            /\ \A j \in 1..k : hScripts[s][j].type # "<raises>"}

C14_OutOfStockOfferIsSoldOut ==
    hPc = "done" =>
        \A o \in C14_Reached :
            (o.type = "Offer" /\ Contains(o.url, <<"/", "t", "i", "c", "k", "e", "t", "s", "/">>) /\ C14_OutOfStock(o)) =>
                \E k \in 1..Len(hTickets) :
                    /\ hTickets[k].url_compra = o.url
                    /\ hTickets[k].tipo = o.name
                    /\ hTickets[k].agotadas

\* the offer VIP, OutOfStock and without inventoryLevel, gives a ticket
\* that is not sold out
C14_OutOfStockNotSoldOut ==
    /\ hPc = "done"
    /\ Len(hScripts) = 1
    /\ Len(hScripts[1]) = 1
    /\ hScripts[1][1].availability = <<"h", "t", "t", "p", "s", ":", "/", "/", "s", "c", "h", "e", "m", "a", ".", "o", "r", "g", "/", "O", "u", "t", "O", "f", "S", "t", "o", "c", "k">>
    /\ ~hScripts[1][1].inventoryLevel.dict
    /\ Len(hTickets) = 1
    /\ hTickets[1].tipo = <<"V", "I", "P">>
    /\ ~hTickets[1].agotadas

(***************************************************************************)
(* C15: when a batch commit fails during a publish, in the delete phase or *)
(* in the insert phase, no further commit is issued for that run and the   *)
(* error reaches the caller: a failed commit is the last one of the run,   *)
(* and main() has caught its exception once the publish section is over.   *)
(***************************************************************************)
C15_FailedCommitEndsThePublish ==
    \A i \in 1..Len(sCommits) :
        ~sCommits[i].ok =>
            /\ i = Len(sCommits)
            /\ sPc = "done" => sError # "none"

\* the delete-phase commit failed, the insert-phase commit followed and
\* succeeded, and main() saw no exception
C15_InsertAfterFailedDelete ==
    /\ sPc = "done"
    /\ sCommits = <<CommitCall("delete", FALSE), CommitCall("insert", TRUE)>>
    /\ sError = "none"
    /\ \E id \in DOMAIN store : store[id] = [source |-> "scraper", is_manual |-> FALSE,
                                             fecha |-> UploadEvent.fecha, hora |-> UploadEvent.hora]
    /\ \E id \in DOMAIN store : DeleteDecision(store[id], NowStart) \in {"past", "scraper"}

(***************************************************************************)
(* MAIN: main() of scraper_firecrawl_dev.py                                *)
(*                                                                         *)
(* A raw event is named by a letter; raw_events is a list of them. The     *)
(* files of DATA_DIR written by the run are records [name, content], and   *)
(* aLog lists, in order, the files written and the sink operations called. *)
(* open() and json.dump() are taken to succeed.                            *)
(***************************************************************************)
MaxRaw == 2

RawEventPool == {"a", "b"}

RawOutcomes == UNION {[1..n -> RawEventPool] : n \in 0..MaxRaw}

\* transform_to_app_format(raw_events): one record {'evento': ...} per event
Transformed(raw_events) == [i \in 1..Len(raw_events) |-> [evento |-> raw_events[i]]]

File(name, content) == [name |-> name, content |-> content]

SinkOps == {"delete_old_events", "upload_events_to_firestore"}

\* mutant: a publish that fails makes main() return 1
ReturnAfterPublishFailing(caught) == IF caught THEN 1 ELSE 0

\* the value main() returns after the publish section, whether or not its
\* except clause ran
ReturnAfterPublish(caught) == 0

MainInit ==
    /\ Idle("main")
    /\ aTest \in BOOLEAN
    /\ aUpload \in BOOLEAN
    /\ aNoDetails \in BOOLEAN
    /\ aRaw = <<>>
    /\ aFiles = {}
    /\ aLog = <<>>
    /\ aCaught = FALSE
    /\ aExit = -1
    /\ aPc = "start"

\* "if args.test": test_connection() reports whether the connection worked
MainTest ==
    /\ aPc = "start"
    /\ aTest
    /\ \E success \in BOOLEAN : aExit' = IF success THEN 0 ELSE 1
    /\ aPc' = "exit"
    /\ UNCHANGED <<aTest, aUpload, aNoDetails, aRaw, aFiles, aLog, aCaught>>
    /\ Frame("main")

\* raw_events = scrape_all_events(...); "if not raw_events: return 1". An
\* exception of scrape_all_events is not caught: the process exits with 1.
MainScrape ==
    /\ aPc = "start"
    /\ ~aTest
    /\ \E raised \in BOOLEAN : \E raw_events \in RawOutcomes :
         IF raised \/ raw_events = <<>>
         THEN /\ aRaw' = <<>>
              /\ aExit' = 1
              /\ aPc' = "exit"
         ELSE /\ aRaw' = raw_events
              /\ aExit' = aExit
              /\ aPc' = "save_raw"
    /\ UNCHANGED <<aTest, aUpload, aNoDetails, aFiles, aLog, aCaught>>
    /\ Frame("main")

\* json.dump(raw_events, ...) to raw_events.json
MainSaveRaw ==
    /\ aPc = "save_raw"
    /\ aFiles' = {f \in aFiles : f.name # "raw_events.json"} \cup {File("raw_events.json", aRaw)}
    /\ aLog' = Append(aLog, "raw_events.json")
    /\ aPc' = "save_events"
    /\ UNCHANGED <<aTest, aUpload, aNoDetails, aRaw, aCaught, aExit>>
    /\ Frame("main")

\* json.dump(transformed, ...) to events.json; "if args.upload", else return 0
MainSaveEvents ==
    /\ aPc = "save_events"
    /\ aFiles' = {f \in aFiles : f.name # "events.json"} \cup {File("events.json", Transformed(aRaw))}
    /\ aLog' = Append(aLog, "events.json")
    /\ IF aUpload
       THEN /\ aPc' = "import"
            /\ aExit' = aExit
       ELSE /\ aPc' = "exit"
            /\ aExit' = ReturnAfterPublish(aCaught)
    /\ UNCHANGED <<aTest, aUpload, aNoDetails, aRaw, aCaught>>
    /\ Frame("main")

\* "from firebase_config import ...": an ImportError is caught by main()
MainImport ==
    /\ aPc = "import"
    /\ \E ok \in BOOLEAN :
         IF ok
         THEN /\ aPc' = "delete"
              /\ aCaught' = aCaught
              /\ aExit' = aExit
         ELSE /\ aPc' = "exit"
              /\ aCaught' = TRUE
              /\ aExit' = ReturnAfterPublish(TRUE)
    /\ UNCHANGED <<aTest, aUpload, aNoDetails, aRaw, aFiles, aLog>>
    /\ Frame("main")

\* delete_old_events(collection_name=DEV_COLLECTION): it returns normally
\* whatever happens inside
MainDelete ==
    /\ aPc = "delete"
    /\ aLog' = Append(aLog, "delete_old_events")
    /\ aPc' = "upload"
    /\ UNCHANGED <<aTest, aUpload, aNoDetails, aRaw, aFiles, aCaught, aExit>>
    /\ Frame("main")

\* upload_events_to_firestore(transformed, ...): an exception is caught by
\* main(); "return 0"
MainUpload ==
    /\ aPc = "upload"
    /\ aLog' = Append(aLog, "upload_events_to_firestore")
    /\ \E ok \in BOOLEAN :
         /\ aCaught' = ~ok
         /\ aExit' = ReturnAfterPublish(~ok)
    /\ aPc' = "exit"
    /\ UNCHANGED <<aTest, aUpload, aNoDetails, aRaw, aFiles>>
    /\ Frame("main")

MainNext ==
    \/ MainTest
    \/ MainScrape
    \/ MainSaveRaw
    \/ MainSaveEvents
    \/ MainImport
    \/ MainDelete
    \/ MainUpload

SpecMain == MainInit /\ [][MainNext]_vars

(***************************************************************************)
(* C16: in a run of main() (a call that scrapes, not the connection test   *)
(* of --test), when the scrape produced at least one event both artifact   *)
(* files are written before any sink operation is called, they are still   *)
(* written when main() ends, also when publishing failed, and main()       *)
(* returns 0; main() exits with 1 exactly when the scrape produced no      *)
(* event, and then nothing is written or published.                        *)
(***************************************************************************)
C16_Written ==
    /\ File("raw_events.json", aRaw) \in aFiles
    /\ File("events.json", Transformed(aRaw)) \in aFiles

C16_Body ==
    /\ \A j \in 1..Len(aLog) :
          aLog[j] \in SinkOps =>
              /\ \E i \in 1..(j - 1) : aLog[i] = "raw_events.json"
              /\ \E i \in 1..(j - 1) : aLog[i] = "events.json"
              /\ C16_Written
    /\ aPc = "exit" =>
          /\ aRaw # <<>> => C16_Written /\ aExit = 0
          /\ aExit = 1 <=> aRaw = <<>>
          /\ aRaw = <<>> => aFiles = {} /\ aLog = <<>>

LinkEvent(url, code, name, venue_slug) ==
    [url |-> url, code |-> code, name |-> name, venue_slug |-> venue_slug]

\* x.count('/')
CountSlashes(x) == Cardinality({i \in 1..Len(x) : x[i] = "/"})

\* the href filter of soup.find_all('a', href=...)
LinkSelected(href, venue_slug) ==
    /\ Truthy(href)
    /\ Contains(href, S_events)
    /\ IsSalaRem(venue_slug) \/ CountSlashes(href) >= 4

\* text[:100]
First100(text) == Sub(text, 1, IF Len(text) < 100 THEN Len(text) ELSE 100)

\* event.get('name') after the aria-label and, for Sala REM, the text of the
\* link or of its parent
LinkName(anchor, venue_slug) ==
    IF anchor.label.name # None THEN anchor.label.name
    ELSE IF ~IsSalaRem(venue_slug) THEN None
    ELSE IF Len(anchor.text) > 5 THEN First100(anchor.text)
    ELSE IF Len(anchor.parent_text) > 5 THEN First100(anchor.parent_text)
    ELSE None

\* extract_from_html_links on a page with this anchor
ExtractFromHtmlLinks(anchor, venue_slug) ==
    IF ~LinkSelected(anchor.href, venue_slug) THEN <<>>
    ELSE IF ~IsSalaRem(venue_slug) /\ ~Contains(anchor.label.value, <<"E", "v", "e", "n", "t", "o">>) THEN <<>>
    ELSE IF ~Truthy(ExtractCodeFromUrl(anchor.href, venue_slug)) THEN <<>>
    ELSE IF ~Truthy(LinkName(anchor, venue_slug)) THEN <<>>
    ELSE <<LinkEvent(anchor.href, ExtractCodeFromUrl(anchor.href, venue_slug),
                     LinkName(anchor, venue_slug), venue_slug)>>

\* the name extract_from_custom_components gives
CardName(anchor) ==
    IF anchor.card = "inside" THEN anchor.text
    ELSE IF anchor.label.missing THEN <<"E", "v", "e", "n", "t", "o">>
    ELSE anchor.label.value

\* extract_from_custom_components on a page with this anchor
ExtractFromCustomComponents(anchor, venue_slug) ==
    IF anchor.card = "none" THEN <<>>
    ELSE IF ~Truthy(anchor.href) \/ ~Contains(anchor.href, S_events) THEN <<>>
    ELSE IF ~Truthy(ExtractCodeFromUrl(anchor.href, venue_slug)) THEN <<>>
    ELSE <<LinkEvent(anchor.href, ExtractCodeFromUrl(anchor.href, venue_slug),
                     CardName(anchor), venue_slug)>>

(***************************************************************************)
(* SpecLinks: the two extractors applied, as extract_events_from_html      *)
(* does, to a page with one anchor of the pools below.                     *)
(***************************************************************************)
HrefBases ==
    { <<"h", "t", "t", "p", "s", ":", "/", "/", "w", "e", "b", ".", "f", "o", "u", "r", "v", "e", "n", "u", "e", "s", ".", "c", "o", "m", "/", "e", "s", "/", "l", "u", "m", "i", "n", "a", "t", "a", "-", "d", "i", "s", "c", "o", "/", "e", "v", "e", "n", "t", "s", "/">>,
      <<"/", "e", "s", "/", "s", "a", "l", "a", "-", "r", "e", "m", "/", "e", "v", "e", "n", "t", "s", "/">>,
      <<"/", "e", "v", "e", "n", "t", "s", "/">> }

HrefTails ==
    { <<"L", "K", "B", "5">>, <<"A", "B">>, <<"-">>, <<"l", "k", "b", "5">>, <<"L", "K", "B", "5", "/", "w", "i", "n", "d", "o", "w", ".", "o", "p", "e", "n">>, <<"L", "K", "B", "5", "/", "?", "q", "=", "$", "*", "*", "*">>,
      <<"f", "i", "e", "s", "t", "a", "-", "-", "0", "9", "-", "0", "1", "-", "2", "0", "2", "6", "-", "H", "Z", "O", "Y">>, <<"f", "u", "n", "c", "t", "i", "o", "n", "-", "-", "0", "9", "-", "0", "1", "-", "2", "0", "2", "6", "-", "H", "Z", "O", "Y">>,
      <<"n", "o", "c", "h", "e", "-", "f", "i", "e", "s", "t", "a">>, <<"a", "-", "b">>, <<>> }

LinkVenues == { <<"l", "u", "m", "i", "n", "a", "t", "a", "-", "d", "i", "s", "c", "o">>, <<"s", "a", "l", "a", "-", "r", "e", "m">>, <<"d", "o", "d", "o", "-", "c", "l", "u", "b">> }

Label(missing, value, name) == [missing |-> missing, value |-> value, name |-> name]

LabelPool ==
    { Label(TRUE, <<>>, None),
      Label(FALSE, <<"V", "e", "r">>, None),
      Label(FALSE, <<"E", "v", "e", "n", "t", "o", " ", "d", "e", "s", "t", "a", "c", "a", "d", "o">>, None),
      Label(FALSE, <<"E", "v", "e", "n", "t", "o", ":", " ", "F", "i", "e", "s", "t", "a", ".", " ", "E", "d", "a", "d", ":", " ", "1", "8">>, <<"F", "i", "e", "s", "t", "a">>) }

Anchor(href, label, text, parent_text, card) ==
    [href |-> href, label |-> label, text |-> text, parent_text |-> parent_text,
     card |-> card]

LinksInit ==
    /\ Idle("links")
    /\ lVenue \in LinkVenues
    /\ \E base \in HrefBases, tail \in HrefTails, label \in LabelPool,
          text \in {<<>>, <<"F", "i", "e", "s", "t", "a", " ", "R", "E", "M">>}, parent_text \in {<<>>, <<"S", "a", "l", "a", " ", "R", "E", "M", " ", "v", "i", "e", "r", "n", "e", "s">>},
          card \in {"none", "inside", "self"} :
          lAnchor = Anchor(base \o tail, label, text, parent_text, card)
    /\ lLinks = <<>>
    /\ lCards = <<>>
    /\ lPc = "call"

\* events = extract_from_html_links(soup, venue_slug);
\* "if not events: events = extract_from_custom_components(soup, venue_slug)"
LinksCall ==
    /\ lPc = "call"
    /\ lLinks' = ExtractFromHtmlLinks(lAnchor, lVenue)
    /\ lCards' = IF ExtractFromHtmlLinks(lAnchor, lVenue) = <<>>
                 THEN ExtractFromCustomComponents(lAnchor, lVenue)
                 ELSE <<>>
    /\ lPc' = "done"
    /\ UNCHANGED <<lAnchor, lVenue>>
    /\ Frame("links")

LinksNext == LinksCall

SpecLinks == LinksInit /\ [][LinksNext]_vars

(***************************************************************************)
(* C17: every candidate of extract_events_from_html, the ones of the       *)
(* anchor-label and custom-component extractors included and for every     *)
(* venue, satisfies the isValid conditions: its code is non-empty,         *)
(* alphanumeric after hyphen removal and at least 4 characters long, and   *)
(* its URL matches no pattern of the injection denylist.                   *)
(***************************************************************************)
C17_IsValid(event) ==
    /\ Truthy(event.code)
    /\ CodeWellFormed(event.code)
    /\ ~MatchesDenylist(event.url)

C17_EveryCandidateIsValid ==
    lPc = "done" => \A k \in 1..Len(lLinks \o lCards) : C17_IsValid((lLinks \o lCards)[k])

\* a labelled anchor of a standard venue gives a candidate whose code has two
\* characters
C17_ShortCodeCandidate ==
    /\ lPc = "done"
    /\ lVenue = <<"l", "u", "m", "i", "n", "a", "t", "a", "-", "d", "i", "s", "c", "o">>
    /\ Len(lLinks) = 1
    /\ lLinks[1].code = <<"A", "B">>
    /\ ~IsValidEventUrl(lLinks[1].url, lLinks[1].code)

\* a card of a standard venue gives a candidate whose URL matches the
\* denylist
C17_DenylistedCardCandidate ==
    /\ lPc = "done"
    /\ lLinks = <<>>
    /\ Len(lCards) = 1
    /\ MatchesDenylist(lCards[1].url)

(***************************************************************************)
(* C18: the code is a uniqueness key only within a venue: two candidates   *)
(* of different venues that share a code and have different URLs are both  *)
(* kept by deduplicate_events, in either order.                            *)
(***************************************************************************)
C18_Venue(event) == Lower(GetStr(event.venue_slug))

C18_SameCode(a, b) ==
    /\ Truthy(NormalizedCode(a.code))
    /\ NormalizedCode(a.code) = NormalizedCode(b.code)

C18_CodeIsKeyWithinVenue ==
    (/\ dPc # "first"
     /\ Len(dEvents) = 2
     /\ C18_Venue(dEvents[1]) # C18_Venue(dEvents[2])
     /\ C18_SameCode(dEvents[1], dEvents[2])
     /\ NormalizedUrl(dEvents[1].url) # NormalizedUrl(dEvents[2].url))
    => dOnce = dEvents

\* the candidate of dodo-club is dropped for the code it shares with the
\* candidate of luminata-disco before it
C18_DroppedAcrossVenues ==
    /\ dPc = "done"
    /\ Len(dEvents) = 2
    /\ C18_Venue(dEvents[1]) = <<"l", "u", "m", "i", "n", "a", "t", "a", "-", "d", "i", "s", "c", "o">>
    /\ C18_Venue(dEvents[2]) = <<"d", "o", "d", "o", "-", "c", "l", "u", "b">>
    /\ C18_SameCode(dEvents[1], dEvents[2])
    /\ NormalizedUrl(dEvents[1].url) # NormalizedUrl(dEvents[2].url)
    /\ dOnce = <<dEvents[1]>>

(***************************************************************************)
(* C19: when two candidates of the input of deduplicate_events denote the  *)
(* same event (same venue and code), the one kept is the one of the        *)
(* higher-priority source, that is the one with more information, whichever*)
(* of the two comes first.                                                 *)
(***************************************************************************)
\* the number of fields the candidate fills, beyond its url and code
C19_Information(event) ==
    Cardinality({f \in {"name", "date_text", "date_parts"} : Truthy(event[f])})

C19_SameEvent(a, b) == C18_Venue(a) = C18_Venue(b) /\ C18_SameCode(a, b)

C19_RicherCandidateKept ==
    (/\ dPc # "first"
     /\ Len(dEvents) = 2
     /\ C19_SameEvent(dEvents[1], dEvents[2])
     /\ C19_Information(dEvents[1]) # C19_Information(dEvents[2]))
    => dOnce = <<IF C19_Information(dEvents[1]) > C19_Information(dEvents[2])
                 THEN dEvents[1] ELSE dEvents[2]>>

\* the first candidate is kept though the second, the same event, also
\* carries a date
C19_PoorerCandidateKept ==
    /\ dPc = "done"
    /\ Len(dEvents) = 2
    /\ C19_SameEvent(dEvents[1], dEvents[2])
    /\ ~Truthy(dEvents[1].date_text)
    /\ Truthy(dEvents[2].date_text)
    /\ C19_Information(dEvents[1]) < C19_Information(dEvents[2])
    /\ dOnce = <<dEvents[1]>>

(***************************************************************************)
(* C20: transform_to_app_format resolves the date by strict priority: from *)
(* _date_parts when present; otherwise from date_text when it parses (day  *)
(* and month name, the year being the current one, or the next one when    *)
(* the month is before the current month), the URL date stamp being        *)
(* ignored; from the URL date stamp only when neither is available. This   *)
(* holds whatever date the text resolves to, today's date included.        *)
(***************************************************************************)
C20_TextParses(event) == DayAndWord(GetStr(event.date_text)) # None

C20_FechaByPriority(event, today) ==
    IF event.date_parts # <<>>
    THEN event.date_parts[3] \o <<"-">> \o event.date_parts[2] \o <<"-">>
            \o ZFill(event.date_parts[1], 2)
    ELSE IF C20_TextParses(event) THEN FechaFromText(GetStr(event.date_text), today)
    ELSE IF Truthy(event.url) /\ FechaFromUrl(event.url) # None THEN FechaFromUrl(event.url)
    ELSE TodayFecha(today)

C20_DateByStrictPriority ==
    tPc = "done" =>
        tOut.fecha = AdjustedFecha(C20_FechaByPriority(tEvent, tToday), HoraInicio(tEvent))

\* on the first of January 2026 the text '1 enero' gives way to the date
\* stamp of the URL
C20_TodayInTextLosesToUrlStamp ==
    /\ tPc = "done"
    /\ tEvent.date_parts = <<>>
    /\ tEvent.date_text = <<"1", " ", "e", "n", "e", "r", "o">>
    /\ tToday = [y |-> 2026, m |-> 1, d |-> 1]
    /\ FechaFromText(tEvent.date_text, tToday) = <<"2", "0", "2", "6", "-", "0", "1", "-", "0", "1">>
    /\ tEvent.hora_inicio = <<"2", "3", ":", "3", "0">>
    /\ tOut.fecha = <<"2", "0", "2", "5", "-", "0", "3", "-", "0", "1">>

(***************************************************************************)
(* C21: the list scrape_all_events returns is deduplicated over all the    *)
(* venues: no two of its events have the same URL, query and fragment      *)
(* aside, whether the details are fetched or not.                          *)
(***************************************************************************)
C21_ReturnedUrlsUnique ==
    rPc = "done" =>
        \A i, j \in 1..Len(rOut) :
            i # j => NormalizedUrl(rOut[i].event.url) # NormalizedUrl(rOut[j].event.url)

\* without details, two events with the same URL are returned
C21_DuplicateWithoutDetails ==
    /\ rPc = "done"
    /\ ~rGetDetails
    /\ \E i, j \in 1..Len(rOut) :
          /\ i < j
          /\ NormalizedUrl(rOut[i].event.url) = NormalizedUrl(rOut[j].event.url)
          /\ rOut[i].event.url # rOut[j].event.url

(***************************************************************************)
(* BATCHES: the commits of delete_old_events and upload_events_to_firestore*)
(* on a collection or a list of bN records. Record k is named by k; in     *)
(* delete_old_events its data is bDocs[k modulo Len(bDocs)], so a short    *)
(* list of documents describes the whole collection. A WriteBatch is the   *)
(* set of the records whose operation it holds.                            *)
(***************************************************************************)
MaxRecords == 801

BatchSizes == {0, 1, BATCH_COMMIT - 1, BATCH_COMMIT, BATCH_COMMIT + 1, MaxRecords - 1, MaxRecords}

BatchDocTypes ==
    { [source |-> "scraper", is_manual |-> FALSE,
       fecha |-> [kind |-> "ok", v |-> 1], hora |-> [kind |-> "ok", v |-> 23 * 60]],
      [source |-> "scraper", is_manual |-> FALSE,
       fecha |-> [kind |-> "ok", v |-> 3], hora |-> [kind |-> "ok", v |-> 23 * 60]],
      [source |-> "manual", is_manual |-> FALSE,
       fecha |-> [kind |-> "ok", v |-> 3], hora |-> [kind |-> "ok", v |-> 23 * 60]] }

\* the data of record k
BatchDoc(docs, k) == docs[(k % Len(docs)) + 1]

\* whether the loop body queues an operation for record k
Queues(fn, docs, k) ==
    fn = "upload" \/ DeleteDecision(BatchDoc(docs, k), NowStart) \in {"past", "scraper"}

\* mutant: the batch is committed after the loop whatever it holds
FinalCommitAlways(count) == TRUE

\* "if count % 400 != 0", after the loop
FinalCommit(count) == count % BATCH_COMMIT # 0

\* "if count % 400 == 0", in the loop
BatchFull(count) == count % BATCH_COMMIT = 0

BatchCommit(fn, ops, ok) == [fn |-> fn, ops |-> ops, ok |-> ok]

BatchInit ==
    /\ Idle("batch")
    /\ bFn \in {"delete", "upload"}
    /\ bN \in BatchSizes
    /\ \E n \in 1..2 : bDocs \in [1..n -> BatchDocTypes]
    /\ bFn = "upload" => bDocs = <<CHOOSE d \in BatchDocTypes : d.source = "manual">>
    /\ bI = 1
    /\ bCount = 0
    /\ bBatch = {}
    /\ bCommits = <<>>
    /\ bPc = "begin"

\* get_db(); "if not events_data: return" in upload_events_to_firestore;
\* batch = db.batch()
BatchBegin ==
    /\ bPc = "begin"
    /\ \E db \in BOOLEAN :
          bPc' = IF ~db \/ (bFn = "upload" /\ bN = 0) THEN "returned" ELSE "loop"
    /\ UNCHANGED <<bFn, bN, bDocs, bI, bCount, bBatch, bCommits>>
    /\ Frame("batch")

\* one iteration of the loop over the records
BatchVisit ==
    /\ bPc = "loop"
    /\ bI <= bN
    /\ bI' = bI + 1
    /\ IF Queues(bFn, bDocs, bI)
       THEN /\ bCount' = bCount + 1
            /\ IF BatchFull(bCount + 1)
               THEN \E ok \in BOOLEAN :
                      /\ bCommits' = Append(bCommits, BatchCommit(bFn, bBatch \cup {bI}, ok))
                      /\ bBatch' = IF ok THEN {} ELSE bBatch \cup {bI}
                      /\ bPc' = IF ok THEN "loop" ELSE "failed"
               ELSE /\ bBatch' = bBatch \cup {bI}
                    /\ bCommits' = bCommits
                    /\ bPc' = "loop"
       ELSE UNCHANGED <<bCount, bBatch, bCommits, bPc>>
    /\ UNCHANGED <<bFn, bN, bDocs>>
    /\ Frame("batch")

\* after the loop: the commit of what is left
BatchFinish ==
    /\ bPc = "loop"
    /\ bI > bN
    /\ IF FinalCommit(bCount)
       THEN \E ok \in BOOLEAN :
              /\ bCommits' = Append(bCommits, BatchCommit(bFn, bBatch, ok))
              /\ bBatch' = IF ok THEN {} ELSE bBatch
              /\ bPc' = IF ok THEN "done" ELSE "failed"
       ELSE /\ bCommits' = bCommits
            /\ bBatch' = bBatch
            /\ bPc' = "done"
    /\ UNCHANGED <<bFn, bN, bDocs, bI, bCount>>
    /\ Frame("batch")

BatchNext ==
    \/ BatchBegin
    \/ BatchVisit
    \/ BatchFinish

SpecBatch == BatchInit /\ [][BatchNext]_vars

(***************************************************************************)
(* C22: in upload_events_to_firestore and delete_old_events, for every     *)
(* number of records, each commit holds at least one and at most 400       *)
(* operations, and when no commit fails every operation queued is          *)
(* committed exactly once: the batches committed are disjoint and, when    *)
(* the function ends, together they hold every record the loop queued.     *)
(***************************************************************************)
C22_EveryOperationCommittedOnce ==
    /\ \A k \in 1..Len(bCommits) :
          /\ bCommits[k].ops # {}
          /\ Cardinality(bCommits[k].ops) <= 400
          /\ \A j \in 1..(k - 1) : bCommits[j].ops \cap bCommits[k].ops = {}
          /\ ~bCommits[k].ok => k = Len(bCommits) /\ bPc = "failed"
    /\ bPc = "done" =>
          UNION {bCommits[k].ops : k \in 1..Len(bCommits)}
              = {k \in 1..bN : Queues(bFn, bDocs, k)}

\* 801 events uploaded in batches of 400, 400 and 1
C22_Witness ==
    /\ bPc = "done"
    /\ bFn = "upload"
    /\ bN = 801
    /\ Len(bCommits) = 3
    /\ bCommits[1].ops = 1..400
    /\ bCommits[2].ops = 401..800
    /\ bCommits[3].ops = {801}

(***************************************************************************)
(* C23: for a venue without a stable code (Sala REM), deduplicate_events   *)
(* takes the date of a candidate from _date_parts if present, else from    *)
(* date_text, else from the date stamp of the URL, going on to the next    *)
(* source when one is present but does not parse; two candidates with the  *)
(* same normalized name and the same calendar date are collapsed to one,   *)
(* whichever source each date comes from.                                  *)
(***************************************************************************)
\* the calendar date <<day, month, year>> written as day-month-year
C23_Calendar(date) ==
    IF date = None THEN None
    ELSE <<StrToInt(SplitChar(date, "-")[1]), StrToInt(SplitChar(date, "-")[2]),
           StrToInt(SplitChar(date, "-")[3])>>

C23_Date(event) ==
    IF event.date_parts # <<>>
    THEN <<StrToInt(event.date_parts[1]), StrToInt(event.date_parts[2]),
           StrToInt(event.date_parts[3])>>
    ELSE IF Truthy(event.date_text) /\ DateFromText(event.date_text) # None
    THEN C23_Calendar(DateFromText(event.date_text))
    ELSE IF NormalizedUrl(event.url) # <<>>
    THEN C23_Calendar(DateFromUrl(NormalizedUrl(event.url)))
    ELSE None

C23_SameNameAndDate(a, b) ==
    /\ IsSalaRem(GetStr(a.venue_slug)) /\ IsSalaRem(GetStr(b.venue_slug))
    /\ Strip(GetStr(a.name)) # <<>> /\ Strip(GetStr(b.name)) # <<>>
    /\ NameNormalized(Strip(GetStr(a.name))) = NameNormalized(Strip(GetStr(b.name)))
    /\ C23_Date(a) # None
    /\ C23_Date(a) = C23_Date(b)

C23_SameNameAndDateCollapsed ==
    (/\ dPc # "first"
     /\ Len(dEvents) = 2
     /\ C23_SameNameAndDate(dEvents[1], dEvents[2]))
    => Len(dOnce) = 1

\* 'noche blanca' on 09-01-2026 by its _date_parts and on 9-01-2026 by its
\* URL: both candidates are kept
C23_SameDayKeptTwice ==
    /\ dPc = "done"
    /\ Len(dEvents) = 2
    /\ C23_SameNameAndDate(dEvents[1], dEvents[2])
    /\ dEvents[1].date_parts = <<<<"0", "9">>, <<"0", "1">>, <<"2", "0", "2", "6">>>>
    /\ dEvents[2].date_parts = <<>>
    /\ ~Truthy(dEvents[2].date_text)
    /\ dOnce = dEvents

\* the date_text 'pronto' does not parse and the date stamp of the URL is
\* not read: both candidates are kept
C23_NoFallThroughKeptTwice ==
    /\ dPc = "done"
    /\ Len(dEvents) = 2
    /\ C23_SameNameAndDate(dEvents[1], dEvents[2])
    /\ dEvents[2].date_text = <<"p", "r", "o", "n", "t", "o">>
    /\ dOnce = dEvents

(***************************************************************************)
(* C24: in match_tickets_with_schema, when there are markdown tickets,     *)
(* every schema ticket contributes to exactly one ticket of the result:    *)
(* it is merged into the one markdown ticket it was matched to or it is    *)
(* appended once as it is, never both, and it is never merged into two     *)
(* markdown tickets. A schema ticket contributes to the result tickets     *)
(* that carry its purchase URL.                                            *)
(***************************************************************************)
C24_DistinctUrls(schema_tickets) ==
    \A i \in 1..Len(schema_tickets), j \in 1..Len(schema_tickets) :
        schema_tickets[i].url_compra = schema_tickets[j].url_compra => i = j

C24_Contributions(j) ==
    Cardinality({k \in 1..Len(xResult) : xResult[k].url_compra = xSchema[j].url_compra})

C24_SchemaTicketContributesOnce ==
    (xPc = "done" /\ xMarkdown # <<>> /\ C24_DistinctUrls(xSchema)) =>
        \A j \in 1..Len(xSchema) : C24_Contributions(j) = 1

\* {PROMOCIÓN 2 copas, 0} takes the price and URL of {ENTRADA 2 COPAS, 12.5,
\* /tickets/g} by the two words they share, and the schema ticket is
\* appended as well
C24_MergedAndAppended ==
    /\ xPc = "done"
    /\ Len(xMarkdown) = 1 /\ Len(xSchema) = 1
    /\ xSchema[1].url_compra = <<"/", "t", "i", "c", "k", "e", "t", "s", "/", "g">>
    /\ NormalizeName(xMarkdown[1].tipo) = <<"P", "R", "O", "M", "O", "C", "I", "O", "N", " ", "2", " ", "C", "O", "P", "A", "S">>
    /\ Len(xResult) = 2
    /\ xResult[1].tipo = xMarkdown[1].tipo
    /\ xResult[1].url_compra = <<"/", "t", "i", "c", "k", "e", "t", "s", "/", "g">>
    /\ xResult[2] = xSchema[1]

(***************************************************************************)
(* C25: in match_tickets_with_schema, the result ticket made from a        *)
(* markdown ticket that is sold out is sold out, in both paths; in the     *)
(* path taken when the schema has no real price or the markdown has one,   *)
(* the result ticket of a markdown ticket matched to a schema ticket is    *)
(* sold out exactly when the markdown ticket or the schema ticket is.      *)
(***************************************************************************)
C25_SecondPath == ~(HasPrices(xSchema) /\ ~HasPrices(xMarkdown))

C25_SoldOutKeptAndOred ==
    (xPc = "done" /\ xMarkdown # <<>> /\ xSchema # <<>>) =>
        \A k \in 1..Len(xMarkdown) :
            /\ xMarkdown[k].agotadas => xResult[k].agotadas
            /\ C25_SecondPath =>
                  \A j \in 1..Len(xSchema) :
                      xResult[k].url_compra = xSchema[j].url_compra =>
                          (xResult[k].agotadas <=>
                              (xMarkdown[k].agotadas \/ xSchema[j].agotadas))

\* the sold out {PROMOCIÓN 2 copas, 0} matched to {Promocion 2 Copas, 0, on
\* sale} stays sold out, and {ENTRADA GENERAL, 8, on sale} matched to
\* {ENTRADA GENERAL, ' 8 ', sold out} becomes sold out
C25_Witness ==
    /\ xPc = "done"
    /\ C25_SecondPath
    /\ Len(xMarkdown) = 2 /\ Len(xSchema) = 2
    /\ xMarkdown[1].agotadas /\ ~xSchema[1].agotadas
    /\ xResult[1].url_compra = xSchema[1].url_compra
    /\ xResult[1].agotadas
    /\ ~xMarkdown[2].agotadas /\ xSchema[2].agotadas
    /\ xResult[2].url_compra = xSchema[2].url_compra
    /\ xResult[2].agotadas
    /\ Len(xResult) = 2

(***************************************************************************)
(* C26: in match_tickets_with_schema, when some markdown ticket has a real *)
(* price, the result ticket of a markdown ticket matched to a schema       *)
(* ticket has the purchase URL of the schema ticket, and it keeps the      *)
(* markdown price if that is real and the schema price is not (it is '0',  *)
(* 'None' or empty once stripped, as the function tests real prices).      *)
(***************************************************************************)
C26_RealPriceNotReplacedBySentinel ==
    (xPc = "done" /\ HasPrices(xMarkdown) /\ xSchema # <<>>) =>
        \A k \in 1..Len(xMarkdown) : \A j \in 1..Len(xSchema) :
            (/\ xResult[k].url_compra = xSchema[j].url_compra
             /\ IsRealPrice(xMarkdown[k].precio)
             /\ ~IsRealPrice(xSchema[j].precio))
            => xResult[k].precio = xMarkdown[k].precio

\* {ENTRADA GENERAL, 8} matched to {ENTRADA GENERAL, ' 0 '} has the price 0
C26_RealPriceReplacedByZero ==
    /\ xPc = "done"
    /\ Len(xMarkdown) = 1 /\ Len(xSchema) = 1
    /\ xMarkdown[1].precio = <<"8">>
    /\ xSchema[1].precio = <<" ", "0", " ">>
    /\ xResult[1].url_compra = xSchema[1].url_compra
    /\ xResult[1].precio = <<"0">>

(***************************************************************************)
(* C27: a call of delete_old_events whose commits succeed deletes every    *)
(* record whose date and start time are past when the call starts, manual  *)
(* or not, and every record that is not manual (source is not 'manual',    *)
(* is_manual is false) and whose source is 'scraper', empty or absent; it  *)
(* deletes no other record, but for a record whose date and start time     *)
(* pass while the call runs; the records it keeps, it keeps unchanged. So  *)
(* a manual record or a record of unknown source whose date is to come,    *)
(* missing or unparseable is preserved.                                    *)
(***************************************************************************)
\* the date plus the start time (00:00 if there is none or it is not HH:MM)
\* is before t
C27_InPast(data, t) ==
    /\ data.fecha.kind = "ok"
    /\ data.hora.kind # "value"
    /\ (data.fecha.v * 24 * 60) + (IF data.hora.kind = "ok" THEN data.hora.v ELSE 0) < t

C27_FromScraper(data) ==
    /\ data.source # "manual"
    /\ ~data.is_manual
    /\ data.source \in {"scraper", ""}

C27_DeletesPastAndScraperOnly ==
    [][ (/\ sPc = "delLoop"
         /\ sPc' = "delDone"
         /\ sCommits' # sCommits => sCommits'[Len(sCommits')].ok)
        => /\ \A id \in DOMAIN store :
                 (C27_InPast(store[id], NowStart) \/ C27_FromScraper(store[id]))
                     => id \notin DOMAIN store'
           /\ \A id \in DOMAIN store :
                 ~(C27_InPast(store[id], now) \/ C27_FromScraper(store[id]))
                     => (id \in DOMAIN store' /\ store'[id] = store[id])
      ]_vars

\* a call that deleted one past record and kept a record tagged manual whose
\* date is to come
C27_Witness ==
    /\ sPc = "delDone"
    /\ sCommits = <<CommitCall("delete", TRUE)>>
    /\ sCounts.past = 1
    /\ sCounts.preserved = 1
    /\ \E id \in DOMAIN store :
          /\ DOMAIN store = {id}
          /\ store[id].source = "manual"
          /\ store[id].fecha.kind = "ok"
          /\ ~C27_InPast(store[id], now)

(***************************************************************************)
(* SERVER: server.py                                                       *)
(*                                                                         *)
(* The threads that call run_scraper: the scheduler thread (thread 0,      *)
(* scheduled_scraper) and the threads trigger_scrape starts, one for each  *)
(* authorized POST /api/scrape (threads 1..MaxPosts; a thread that ended   *)
(* makes room for the thread of a later request). The threads share        *)
(* server_status and nothing orders their statements, so a step is one     *)
(* statement of run_scraper by one thread. The module scraper is not part  *)
(* of the sources: its import succeeds or raises, and scrape_and_save      *)
(* returns a list of events or raises an Exception.                        *)
(***************************************************************************)
MaxPosts == 2

Scheduler == 0

Threads == 0..MaxPosts

\* len(events) of the lists scrape_and_save returns
EventCounts == {0, 3}

\* server_status
Status(is_scraping, last_error, last_scrape, total_events) ==
    [is_scraping |-> is_scraping, last_error |-> last_error,
     last_scrape |-> last_scrape, total_events |-> total_events]

\* the thread goes to the next line
Goto(t, line) == vPc' = [vPc EXCEPT ![t] = line]

\* "if __name__ == '__main__'": total_events from the cache, the scheduler
\* thread started
ServerInit ==
    /\ Idle("server")
    /\ \E n \in EventCounts : vStatus = Status(FALSE, None, None, n)
    /\ vPc = [t \in Threads |-> "idle"]
    /\ vEvents = [t \in Threads |-> -1]

\* scheduled_scraper: "if now.hour == UPDATE_HOUR and now.minute ==
\* UPDATE_MINUTE: success, message = run_scraper()"
Schedule ==
    /\ vPc[Scheduler] = "idle"
    /\ Goto(Scheduler, "l56")
    /\ UNCHANGED <<vStatus, vEvents>>
    /\ Frame("server")

\* trigger_scrape: 401 without the admin key, else a thread that calls
\* run_scraper is started
TriggerScrape(t) ==
    /\ t # Scheduler
    /\ vPc[t] = "idle"
    /\ \E authorized \in BOOLEAN :
          IF authorized THEN Goto(t, "l56") ELSE UNCHANGED vPc
    /\ UNCHANGED <<vStatus, vEvents>>
    /\ Frame("server")

\* 'if server_status["is_scraping"]: return False, ...'
CheckScraping(t) ==
    /\ vPc[t] = "l56"
    /\ Goto(t, IF vStatus.is_scraping THEN "l57" ELSE "l59")
    /\ UNCHANGED <<vStatus, vEvents>>
    /\ Frame("server")

\* 'server_status["is_scraping"] = True'
SetScraping(t) ==
    /\ vPc[t] = "l59"
    /\ vStatus' = [vStatus EXCEPT !.is_scraping = TRUE]
    /\ Goto(t, "l60")
    /\ UNCHANGED vEvents
    /\ Frame("server")

\* 'server_status["last_error"] = None'
ClearError(t) ==
    /\ vPc[t] = "l60"
    /\ vStatus' = [vStatus EXCEPT !.last_error = None]
    /\ Goto(t, "l64")
    /\ UNCHANGED vEvents
    /\ Frame("server")

\* "from scraper import scrape_and_save"
ImportScraper(t) ==
    /\ vPc[t] = "l64"
    /\ \E raises \in BOOLEAN : Goto(t, IF raises THEN "l76" ELSE "l67")
    /\ UNCHANGED <<vStatus, vEvents>>
    /\ Frame("server")

\* "events = asyncio.run(scrape_and_save())"
Scrape(t) ==
    /\ vPc[t] = "l67"
    /\ \/ /\ Goto(t, "l76")
          /\ UNCHANGED vEvents
       \/ \E n \in EventCounts :
             /\ vEvents' = [vEvents EXCEPT ![t] = n]
             /\ Goto(t, "l69")
    /\ UNCHANGED vStatus
    /\ Frame("server")

\* 'server_status["last_scrape"] = datetime.now().isoformat()'
SetLastScrape(t) ==
    /\ vPc[t] = "l69"
    /\ vStatus' = [vStatus EXCEPT !.last_scrape = <<"i", "s", "o">>]
    /\ Goto(t, "l70")
    /\ UNCHANGED vEvents
    /\ Frame("server")

\* 'server_status["total_events"] = len(events)'
SetTotalEvents(t) ==
    /\ vPc[t] = "l70"
    /\ vStatus' = [vStatus EXCEPT !.total_events = vEvents[t]]
    /\ Goto(t, "l71")
    /\ UNCHANGED vEvents
    /\ Frame("server")

\* 'server_status["is_scraping"] = False' of the try block
ResetScraping(t) ==
    /\ vPc[t] = "l71"
    /\ vStatus' = [vStatus EXCEPT !.is_scraping = FALSE]
    /\ Goto(t, "l73")
    /\ UNCHANGED vEvents
    /\ Frame("server")

\* mutant: the except clause does not reset is_scraping
ResetOnErrorMissing(t) ==
    /\ vPc[t] = "l76"
    /\ Goto(t, "l77")
    /\ UNCHANGED <<vStatus, vEvents>>
    /\ Frame("server")

\* 'server_status["is_scraping"] = False' of the except clause
ResetOnError(t) ==
    /\ vPc[t] = "l76"
    /\ vStatus' = [vStatus EXCEPT !.is_scraping = FALSE]
    /\ Goto(t, "l77")
    /\ UNCHANGED vEvents
    /\ Frame("server")

\* 'server_status["last_error"] = str(e)'
SetLastError(t) ==
    /\ vPc[t] = "l77"
    /\ vStatus' = [vStatus EXCEPT !.last_error = <<"e">>]
    /\ Goto(t, "l78")
    /\ UNCHANGED vEvents
    /\ Frame("server")

\* the return statements of run_scraper (57, 73, 78); the thread of a request
\* ends, the scheduler goes back to its loop
Return(t) ==
    /\ vPc[t] \in {"l57", "l73", "l78"}
    /\ Goto(t, "idle")
    /\ vEvents' = [vEvents EXCEPT ![t] = -1]
    /\ UNCHANGED vStatus
    /\ Frame("server")

\* one statement of run_scraper by thread t
RunScraper(t) ==
    \/ CheckScraping(t)
    \/ SetScraping(t)
    \/ ClearError(t)
    \/ ImportScraper(t)
    \/ Scrape(t)
    \/ SetLastScrape(t)
    \/ SetTotalEvents(t)
    \/ ResetScraping(t)
    \/ ResetOnError(t)
    \/ SetLastError(t)
    \/ Return(t)

ServerNext ==
    \/ Schedule
    \/ \E t \in Threads : TriggerScrape(t)
    \/ \E t \in Threads : RunScraper(t)

SpecServer == ServerInit /\ [][ServerNext]_vars

\* a thread that is in run_scraper executes its next statement, and the
\* call of the scraper ends
SpecServerFair == SpecServer /\ \A t \in Threads : WF_vars(RunScraper(t))

(***************************************************************************)
(* C28: in server.py at most one thread at a time is in the scraper body   *)
(* of run_scraper (the import and the call of scrape_and_save), whatever   *)
(* the interleaving of the scheduler thread and of the threads started by  *)
(* POST /api/scrape.                                                       *)
(***************************************************************************)
C28_InScraper(t) == vPc[t] \in {"l64", "l67"}

C28_AtMostOneRun ==
    Cardinality({t \in Threads : C28_InScraper(t)}) <= 1

\* the scheduler and the thread of a request are both in the call of
\* scrape_and_save
C28_TwoRuns ==
    /\ vPc[Scheduler] = "l67"
    /\ \E t \in Threads \ {Scheduler} : vPc[t] = "l67"

(***************************************************************************)
(* C29: a call of run_scraper that has set is_scraping to true goes on to  *)
(* set it to false, whether the scraper returns or raises, so is_scraping  *)
(* is false again and again; the step by which a call is rejected because  *)
(* is_scraping is true leaves server_status unchanged.                     *)
(***************************************************************************)
C29_HasReset(t) == vPc[t] \in {"l73", "l77"}

C29_EveryRunResetsTheFlag ==
    /\ \A t \in Threads : (vPc[t] = "l60") ~> C29_HasReset(t)
    /\ [][\A t \in Threads :
             (~C29_HasReset(t) /\ C29_HasReset(t)') => ~vStatus'.is_scraping]_vars
    /\ []<>(~vStatus.is_scraping)
    /\ [][\A t \in Threads :
             (vPc[t] = "l56" /\ vPc'[t] = "l57") => vStatus' = vStatus]_vars

\* the scraper of one call raised and the call has reset is_scraping, after
\* another call was rejected
C29_Witness ==
    /\ ~vStatus.is_scraping
    /\ \E t \in Threads : vPc[t] = "l77"
    /\ \E t \in Threads : vPc[t] = "l57"

(***************************************************************************)
(* C30: no ticket the markdown ticket parser of scrape_event_details       *)
(* gives, whether first, middle or last of the page, carries the key       *)
(* '_candidate_price_line'.                                                *)
(***************************************************************************)
C30_NoTemporaryKey ==
    mPc = "done" =>
        \A k \in 1..Len(mTickets) : mTickets[k].candidate_price_line = 0

\* '- ENTRADA GENERAL', '8 €', '- ENTRADA VIP 15€': the first ticket keeps
\* the key, with the number of the line of its price
C30_FirstTicketKeepsKey ==
    /\ mPc = "done"
    /\ Len(mLines) = 3
    /\ Len(mTickets) = 2
    /\ mTickets[1].tipo = <<"E", "N", "T", "R", "A", "D", "A", " ", "G", "E", "N", "E", "R", "A", "L">>
    /\ mTickets[1].precio = <<"8">>
    /\ mTickets[1].candidate_price_line = 2
    /\ mTickets[2].candidate_price_line = 0

=============================================================================
